---- MODULE Spec2Model ----
(***************************************************************************)
(* A model of the LawSummary backend (backend/app): the token bucket of    *)
(* the case-law client, the two research sub-agents, the per-run event bus *)
(* and the master pipeline.  asyncio is cooperative: a coroutine runs      *)
(* without interruption from one suspension point (a network call, a       *)
(* sleep, a wait for a lock) to the next, so each action below is the code *)
(* between two suspension points.                                          *)
(*                                                                         *)
(* The module holds several specifications over the same variables; each   *)
(* one holds the variables of the other components fixed:                  *)
(*   SpecBucket / FairSpecBucket  TokenBucket.acquire under concurrent     *)
(*                                callers and a discrete clock             *)
(*   SpecAgent                    one sub-agent called on its own, with    *)
(*                                every answer its sources may give        *)
(*   SpecBus                      SSEManager with any emitter, and the     *)
(*                                stream_case consumers                    *)
(*   SpecSynth                    the fact-pattern cut and the final list  *)
(*                                of a wave, on any answer of the service  *)
(*   SpecClients                  the case-law clients of concurrent runs *)
(*                                and their limiters, at one instant       *)
(*   SpecScraper                  the statute source: its limiter and its  *)
(*                                cache under concurrent callers           *)
(*   Spec / FairSpec              one run: the pipeline task, the tasks of *)
(*                                its two waves and its subscribers        *)
(***************************************************************************)
EXTENDS Integers, Sequences, FiniteSets, TLC

\* ------------------------------------------------------------------------
\* Bounds of the model
\* ------------------------------------------------------------------------
\* concurrent callers of TokenBucket.acquire
NumCallers == 2
\* acquire() calls each caller makes
MaxAcquires == 3
\* the clock stops advancing here unless a caller still sleeps
MaxTime == 6
\* clock ticks per token period: rate = 1 / TicksPerToken tokens per tick
TicksPerToken == 2
\* sub-agent run on its own: entries a plan may list (lookups, and queries)
AgentPlanMax == 6
\* sub-agent run on its own: distinct statute sections / cases the sources know
AgentKeys == 5
\* sub-agent run on its own: items an evaluation may list
AgentEvalMax == 3
\* sub-agent run on its own: identities an evaluation may name
AgentEvalKeys == 2
\* sub-agent tasks a wave can hold
MaxTasks == 2
\* in a pipeline: entries a plan may list
PipePlanMax == 1
\* in a pipeline: results a search may return
PipeHitMax == 1
\* in a pipeline: distinct statute sections / cases the sources know
PipeKeys == 1
\* in a pipeline: items an evaluation may list
PipeEvalMax == 1
\* runs the bus serves
MaxRuns == 2
\* queues ever subscribed
MaxQueues == 2
\* the bus on its own: events emitted per run, and close() calls per run
MaxEmits == 2
MaxCloses == 1
\* in a pipeline: subscribers of the run
PipeQueues == 1
\* in a pipeline: issue ids a synthesis may name
PipeIssueIds == 1
\* in a pipeline: items a synthesis may list
MaxSynth == 1
\* a reduction on its own: issues a fact pattern may list
FpIssuesMax == 5
\* a reduction on its own: items a synthesis may list, identities it may
\* name, and candidates it is given
SynthLenMax == 5
SynthKeys == 2
SynthCandMax == 2
\* runs whose pipelines are under way together
MaxClientRuns == 2
\* the statute source: concurrent callers, section identities, calls made
\* in all, and the clock's last tick
NumLookups == 3
ScraperKeys == 2
MaxLookupCalls == 4
ScraperMaxTime == 6

\* ------------------------------------------------------------------------
\* Program constants
\* ------------------------------------------------------------------------
\* TokenBucket(rate=1.0, capacity=3): the burst capacity
Capacity == 3
\* statute_agent.MAX_REQUESTS_PER_AGENT
StatuteBudget == 5
\* caselaw_agent.MAX_REQUESTS_PER_AGENT
CaselawBudget == 10
\* search_plan.get(...)[:5]: queries a sub-agent takes from its plan
MaxQueries == 5
\* max_results=5 of keyword_search(...) and cl_client.search(...)
MaxResults == 5
\* list(all_hits.values())[:5]: hits the case-law agent goes on with
HitsListCap == 5
\* the confidence threshold 0.3, in tenths
ConfThreshold == 3
\* Field(ge=0, le=1): the largest valid confidence, in tenths
ConfMax == 10
\* results[:2]: candidates a sub-agent returns
TopK == 2
\* "if elapsed < 1.5", in ticks of half a second
MinGap == 3
\* asyncio.Semaphore(2)
Permits == 2
\* fact_pattern_data.get("issues", [])[:4]
IssueCap == 4
\* synth_result.get(...)[:4]
SynthCap == 4

VARIABLES
    \* --- TokenBucket (services/courtlistener.py) ---
    tokens,        \* self.tokens, in units of 1/TicksPerToken token
    last_refill,   \* self.last_refill, in ticks
    lockHolder,    \* self._lock: the caller inside "async with", 0 when free
    lockWaiters,   \* self._lock's FIFO of suspended acquirers
    tbPc,          \* per caller: "idle" | "waitlock" | "sleeping"
    wakeAt,        \* per caller: when its asyncio.sleep(wait_time) ends
    tbCalls,       \* per caller: acquire() calls started
    tbReturned,    \* acquire() calls that have returned, over all callers
    tbStart,       \* the time the first acquire() began, -1 before
    now,           \* time.monotonic(), in ticks
    \* --- sub-agents (agents/statute_agent.py, agents/caselaw_agent.py) ---
    ag,            \* per task: the sub-agent coroutine's state (a record)
    mode,          \* the harness: "off" | "standalone" | "pipeline"
    \* --- SSEManager (core/sse_manager.py) and stream_case (api/routes.py) ---
    queues,        \* self._queues: run id -> list of queues (an absent key: no entry)
    qbuf,          \* per queue: the items put and not yet taken
    got,           \* per queue: the items its event_generator has taken
    sub,           \* per queue: its stream_case call (state, run, and where in
                   \*   the run's emissions it subscribed and unsubscribed)
    elog,          \* per run: every event emit() was called with, in order
    closed,        \* per run: the number of close() calls
    \* --- the pipeline task of a run (api/routes.py, agents/master_agent.py) ---
    run,           \* the RunState
    pl,            \* the task: its position and locals
    clOpen,        \* the CourtListenerClient holds an httpx client
    \* --- a reduction of the orchestrator applied on its own ---
    syn,           \* its input and its result
    \* --- the CourtListenerClient of each of several runs ---
    clients,       \* per run: its client and the tokens of the client's limiter
    \* --- the statute source (services/leginfo_scraper.py) ---
    scraper        \* the module's globals and the calls under way (a record)

bucketVars == <<tokens, last_refill, lockHolder, lockWaiters, tbPc, wakeAt,
                tbCalls, tbReturned, tbStart, now>>

agentVars == <<ag, mode>>

busVars == <<queues, qbuf, got, sub, elog, closed>>

pipeVars == <<run, pl, clOpen>>

vars == <<bucketVars, agentVars, busVars, pipeVars, syn, clients, scraper>>

\* what a step of one component leaves alone
notBucket == <<agentVars, busVars, pipeVars, syn, clients, scraper>>
notAgents == <<bucketVars, busVars, pipeVars, syn, clients, scraper>>
notBus == <<bucketVars, agentVars, pipeVars, syn, clients, scraper>>

Min(a, b) == IF a <= b THEN a ELSE b

\* ========================================================================
\* TokenBucket
\* ========================================================================
Callers == 1..NumCallers

\* one token, and the capacity, in the units of the variable tokens
OneToken == TicksPerToken
CapacityUnits == Capacity * TicksPerToken

\* TokenBucket.__init__: the bucket starts full, nobody holds the lock
BucketInit ==
    /\ tokens = CapacityUnits
    /\ last_refill = 0
    /\ lockHolder = 0
    /\ lockWaiters = <<>>
    /\ tbPc = [c \in Callers |-> "idle"]
    /\ wakeAt = [c \in Callers |-> 0]
    /\ tbCalls = [c \in Callers |-> 0]
    /\ tbReturned = 0
    /\ tbStart = -1
    /\ now = 0

\* lines 58-60: tokens = min(capacity, tokens + elapsed * rate)
Refilled == Min(CapacityUnits, tokens + (now - last_refill))

\* line 64: wait_time = (1 - tokens) / rate, for the refilled count t
WaitTime(t) == OneToken - t

\* a release that is forgotten: the caller keeps the lock
LockKeptByCaller(c) == c

\* a sleep outside "async with self._lock"
LockFreedForSleep(c) == 0

\* line 65, "await asyncio.sleep(wait_time)" inside "async with self._lock":
\* the sleeper holds the lock
LockWhileSleeping(c) == c

\* leaving "async with self._lock": the lock is free again
LockAfterRelease(c) == 0

\* lines 58-68, run by caller c once it holds the lock: refill, then either
\* start the sleep (still holding the lock) or consume a token and return
CriticalSection(c) ==
    LET t == Refilled IN
    /\ last_refill' = now
    /\ IF t < OneToken
       THEN /\ tokens' = t
            /\ wakeAt' = [wakeAt EXCEPT ![c] = now + WaitTime(t)]
            /\ tbPc' = [tbPc EXCEPT ![c] = "sleeping"]
            /\ lockHolder' = LockWhileSleeping(c)
            /\ tbReturned' = tbReturned
       ELSE /\ tokens' = t - OneToken
            /\ wakeAt' = wakeAt
            /\ tbPc' = [tbPc EXCEPT ![c] = "idle"]
            /\ lockHolder' = LockAfterRelease(c)
            /\ tbReturned' = tbReturned + 1

\* acquire() is called: the lock is taken at once when it is free and nobody
\* waits for it (asyncio.Lock.acquire), else the caller queues up
AcquireEnter(c) ==
    /\ tbPc[c] = "idle"
    /\ tbCalls[c] < MaxAcquires
    /\ tbCalls' = [tbCalls EXCEPT ![c] = @ + 1]
    /\ tbStart' = IF tbStart < 0 THEN now ELSE tbStart
    /\ IF lockHolder = 0 /\ lockWaiters = <<>>
       THEN /\ CriticalSection(c)
            /\ UNCHANGED lockWaiters
       ELSE /\ lockWaiters' = Append(lockWaiters, c)
            /\ tbPc' = [tbPc EXCEPT ![c] = "waitlock"]
            /\ UNCHANGED <<tokens, last_refill, lockHolder, wakeAt, tbReturned>>
    /\ UNCHANGED now
    /\ UNCHANGED notBucket

\* the released lock wakes its first waiter, which runs the critical section
LockGranted(c) ==
    /\ tbPc[c] = "waitlock"
    /\ lockHolder = 0
    /\ lockWaiters # <<>>
    /\ Head(lockWaiters) = c
    /\ lockWaiters' = Tail(lockWaiters)
    /\ CriticalSection(c)
    /\ UNCHANGED <<tbCalls, tbStart, now>>
    /\ UNCHANGED notBucket

\* lines 65-66: the sleep is over; tokens = 0, the lock is released
SleepDone(c) ==
    /\ tbPc[c] = "sleeping"
    /\ now >= wakeAt[c]
    /\ tokens' = 0
    /\ tbPc' = [tbPc EXCEPT ![c] = "idle"]
    /\ lockHolder' = LockAfterRelease(c)
    /\ tbReturned' = tbReturned + 1
    /\ UNCHANGED <<last_refill, lockWaiters, wakeAt, tbCalls, tbStart, now>>
    /\ UNCHANGED notBucket

\* the monotonic clock advances
Tick ==
    /\ \/ now < MaxTime
       \/ \E c \in Callers : tbPc[c] = "sleeping" /\ wakeAt[c] > now
    /\ now' = now + 1
    /\ UNCHANGED <<tokens, last_refill, lockHolder, lockWaiters, tbPc, wakeAt,
                   tbCalls, tbReturned, tbStart>>
    /\ UNCHANGED notBucket

BucketNext ==
    \/ \E c \in Callers : AcquireEnter(c)
    \/ \E c \in Callers : LockGranted(c)
    \/ \E c \in Callers : SleepDone(c)
    \/ Tick

\* ========================================================================
\* Sub-agents: run_statute_agent and run_caselaw_agent
\*
\* A sub-agent is a coroutine; its record holds its position (pc: the call
\* it is suspended in) and its locals.  Each ...Returns operator below is
\* the code that runs when that call returns, up to the next call: it gives
\* the set of states the agent can be suspended in next, one per answer of
\* the environment.  Lists the agent only walks through once (the plan's
\* lookups, a search's results, a hit's opinion_id) are counted, and each
\* entry is drawn when the loop reaches it.
\* ========================================================================
Tasks == 1..MaxTasks

\* what the environment may answer, by harness: entries of a plan, results
\* of a search, identities the sources know, items of an evaluation and
\* identities an evaluation names
PlanMax == IF mode = "standalone" THEN AgentPlanMax ELSE PipePlanMax
HitMax == IF mode = "standalone" THEN MaxResults ELSE Min(PipeHitMax, MaxResults)
KeyMax == IF mode = "standalone" THEN AgentKeys ELSE PipeKeys

\* the identities a source may name next.  An agent run on its own meets
\* them in some order, and they are numbered in that order: the next one is
\* a known one or the first unknown one.
DrawKeys(found) ==
    IF mode = "standalone" THEN 1..Min(Len(found) + 1, KeyMax) ELSE 1..KeyMax

\* confidences the completion service may give, in tenths: below the
\* threshold, on it, above it, and out of the schema's range
ConfValues == {2, 3, 8, 11}

\* confidences a synthesis may give: in the schema's range, and out of it
SynthConfs == {2, 11}

\* ... and the ones drawn in a pipeline
PipeConfs == {2, 8, 11}

\* one item of an evaluation: the identity it names, is_relevant, confidence
EvalItems(nkeys, confs) == [key : 1..nkeys, rel : BOOLEAN, conf : confs]

SeqsUpTo(S, n) == UNION {[1..m -> S] : m \in 0..n}

Contains(s, x) == \E j \in 1..Len(s) : s[j] = x

Take(s, n) == SubSeq(s, 1, Min(n, Len(s)))

\* a coroutine that has not been called
IdleAgent ==
    [kind |-> "none", pc |-> "idle", issue |-> 0,
     rc |-> 0,        \* request_count
     calls |-> 0,     \* calls made to the external source
     nLook |-> 0,     \* entries of specific_lookups not yet reached
     nQ |-> 0,        \* queries not yet reached
     sr |-> 0,        \* results of the current keyword search not yet reached
     key |-> 0,       \* the identity the pending lookup asks for
     idx |-> 0,       \* position in hits_list
     found |-> <<>>,  \* found_sections / all_hits: identities, in insertion order
     statute |-> 0,   \* run_caselaw_agent's statute
     out |-> "none",  \* "none" | "returned" | "raised"
     res |-> <<>>,    \* the list returned
     caught |-> "none",  \* the call whose exception the agent caught: "plan" | "eval"
     nEval |-> 0,        \* evaluate calls made
     cut |-> FALSE,      \* the budget ended a loop that had entries left
     authSeen |-> FALSE,        \* a call of this agent got the authentication failure
     answered |-> FALSE,        \* a call of this agent to the case-law source returned
     calledAfterAuth |-> FALSE] \* and the agent called the source again

\* run_statute_agent(issue, ...) / run_caselaw_agent(statute, issue, ...) is
\* called: it runs to its first await, the plan call
CalledAgent(kind, issue) ==
    [IdleAgent EXCEPT !.kind = kind, !.pc = "plan", !.issue = issue]

\* return results
Returned(a, results) ==
    [a EXCEPT !.pc = "done", !.out = "returned", !.res = results]

\* an exception leaves the agent
Raised(a) ==
    [a EXCEPT !.pc = "done", !.out = "raised", !.res = <<>>]

\* "except Exception as e: logger.error(...); return []" around the plan
\* call, re-raised instead
PlanFailureRaised(a) == Raised([a EXCEPT !.caught = "plan"])

\* "except Exception as e: logger.error(...); return []" around the plan call
PlanFailed(a) == Returned([a EXCEPT !.caught = "plan"], <<>>)

\* the evaluate call made again after it failed
EvalRetried(a) == [a EXCEPT !.caught = "eval", !.nEval = @ + 1]

\* "except Exception as e: logger.error(...); return []" around the
\* evaluate call
EvalFailed(a) == Returned([a EXCEPT !.caught = "eval"], <<>>)

\* the evaluate call is made
Evaluate(a) == [a EXCEPT !.pc = "eval", !.nEval = @ + 1]

\* "if request_count >= MAX_REQUESTS_PER_AGENT: break" at the head of a
\* loop with left entries to go
StopAt(a, left, spent) == [a EXCEPT !.cut = @ \/ (left > 0 /\ spent)]

\* request_count += 1, then the call to the external source
Request(a, pc) ==
    [a EXCEPT !.pc = pc, !.rc = @ + 1, !.calls = @ + 1,
              !.calledAfterAuth = a.authSeen]

\* dict[key] = value: a new key goes last, a known key keeps its place
Put(found, k) == IF Contains(found, k) THEN found ELSE Append(found, k)

\* ---- the selection policy shared by both agents ------------------------
\* "if not ev.get('is_relevant', False): continue" and
\* "if ev.get('confidence', 0) < 0.3: continue"
Eligible(ev) == ev.rel /\ ev.conf >= ConfThreshold

\* StatuteResult(...) / CaseLawResult(...): pydantic rejects confidence > 1
Invalid(ev) == ev.conf > ConfMax

Candidate(ev) == [key |-> ev.key, conf |-> ev.conf]

RECURSIVE InsertDesc(_, _)
\* x placed after every element whose confidence is >= its own
InsertDesc(sorted, x) ==
    IF sorted = <<>> THEN <<x>>
    ELSE IF Head(sorted).conf >= x.conf
         THEN <<Head(sorted)>> \o InsertDesc(Tail(sorted), x)
         ELSE <<x>> \o sorted

\* the results left in the order of the evaluation
KeepOrder(s) == s

RECURSIVE SortDesc(_)
\* results.sort(key=lambda r: r.confidence, reverse=True): stable
SortDesc(s) ==
    IF s = <<>> THEN <<>>
    ELSE InsertDesc(SortDesc(SubSeq(s, 1, Len(s) - 1)), s[Len(s)])

\* the loop over evaluation["evaluations"], the sort and results[:2]; raised
\* when building a result fails
SelectResults(evals) ==
    LET kept == SelectSeq(evals, Eligible) IN
    IF \E j \in 1..Len(kept) : Invalid(kept[j])
    THEN [raised |-> TRUE, list |-> <<>>]
    ELSE [raised |-> FALSE,
          list |-> Take(SortDesc([j \in 1..Len(kept) |-> Candidate(kept[j])]), TopK)]

\* what the conversion makes of the evaluations the completion service may
\* return, by harness
StandaloneOutcomes ==
    {SelectResults(ev) : ev \in SeqsUpTo(EvalItems(AgentEvalKeys, ConfValues), AgentEvalMax)}
PipelineOutcomes ==
    {SelectResults(ev) : ev \in SeqsUpTo(EvalItems(PipeKeys, PipeConfs), PipeEvalMax)}

\* source_issue_id=issue.id
FromIssue(results, issue) ==
    [j \in 1..Len(results) |->
        [key |-> results[j].key, conf |-> results[j].conf, issue |-> issue]]

\* the agent after its evaluate call was converted to r
Evaluated(a, r) ==
    IF r.raised THEN Raised(a) ELSE Returned(a, FromIssue(r.list, a.issue))

\* "except Exception: ... return []" around the evaluate call, an
\* evaluation that has no get() (the loop head raises), or the evaluation
\* converted
EvalReturns(a) ==
    {EvalFailed(a), Raised(a)}
    \cup {Evaluated(a, r) :
            r \in IF mode = "standalone" THEN StandaloneOutcomes ELSE PipelineOutcomes}

\* ---- run_statute_agent --------------------------------------------------
\* "if request_count >= MAX_REQUESTS_PER_AGENT: break" never taken
StatuteBudgetIgnored(a) == FALSE

\* request_count >= MAX_REQUESTS_PER_AGENT
StatuteBudgetSpent(a) == a.rc >= StatuteBudget

\* the evaluate call made whatever was found
StatuteAlwaysEvaluates(a) == {Evaluate(a)}

\* what was found is dropped when the budget is spent
StatuteDropsWhenSpent(a) ==
    IF a.found = <<>> \/ StatuteBudgetSpent(a) THEN {Returned(a, <<>>)} ELSE {Evaluate(a)}

\* "if not found_sections: return []", else the evaluate call
StatuteAfterExecute(a) ==
    IF a.found = <<>> THEN {Returned(a, <<>>)} ELSE {Evaluate(a)}

RECURSIVE StatuteResults(_)
RECURSIVE StatuteQueries(_)
\* the head of "for query in search_plan.get('keyword_queries', [])[:5]"
StatuteQueries(a) ==
    IF a.nQ = 0 \/ StatuteBudgetSpent(a)
    THEN StatuteAfterExecute([StopAt(a, a.nQ, StatuteBudgetSpent(a)) EXCEPT !.nQ = 0])
    ELSE {Request([a EXCEPT !.nQ = @ - 1], "ksearch")}

\* the head of "for sr in search_results": a result whose key is known is
\* passed over, a new one is fetched
StatuteResults(a) ==
    IF a.sr = 0 \/ StatuteBudgetSpent(a)
    THEN StatuteQueries([StopAt(a, a.sr, StatuteBudgetSpent(a)) EXCEPT !.sr = 0])
    ELSE LET rest == [a EXCEPT !.sr = @ - 1] IN
         UNION {IF Contains(a.found, k)
                THEN StatuteResults(rest)
                ELSE {Request([rest EXCEPT !.key = k], "klookup")} :
                    k \in DrawKeys(a.found)}

RECURSIVE StatuteLookups(_)
\* the head of "for lookup in search_plan.get('specific_lookups', [])": the
\* entry lacks a code or a section (skipped), is no object (lookup.get
\* raises), or names a section (fetched)
StatuteLookups(a) ==
    IF a.nLook = 0 \/ StatuteBudgetSpent(a)
    THEN StatuteQueries([StopAt(a, a.nLook, StatuteBudgetSpent(a)) EXCEPT !.nLook = 0])
    ELSE LET rest == [a EXCEPT !.nLook = @ - 1] IN
         StatuteLookups(rest)
         \cup {Raised(rest)}
         \cup {Request([rest EXCEPT !.key = k], "lookup") : k \in DrawKeys(a.found)}

\* the plan call returns: it failed ("return []"), gave what has no
\* get() or no list to walk through (the loop head raises), or gave a plan
StatutePlanReturns(a) ==
    {PlanFailed(a), Raised(a)}
    \cup UNION {StatuteLookups([a EXCEPT !.nLook = nl, !.nQ = Min(nq, MaxQueries)]) :
                    nl \in 0..PlanMax, nq \in 0..PlanMax}

\* a direct lookup_section_cached returns a section, returns None, or raises
StatuteLookupReturns(a) ==
    StatuteLookups([a EXCEPT !.found = Put(@, a.key)])
    \cup StatuteLookups(a)
    \cup {Raised(a)}

\* keyword_search returns its results, or raises (caught: next query)
StatuteKeywordReturns(a) ==
    UNION {StatuteResults([a EXCEPT !.sr = n]) : n \in 0..HitMax}
    \cup StatuteQueries(a)

\* the lookup_section_cached of a search result returns a section, returns
\* None, or raises (caught: the rest of the results is left, next query)
StatuteKLookupReturns(a) ==
    StatuteResults([a EXCEPT !.found = Append(@, a.key)])
    \cup StatuteResults(a)
    \cup StatuteQueries([a EXCEPT !.sr = 0])

\* ---- run_caselaw_agent --------------------------------------------------
\* request_count >= MAX_REQUESTS_PER_AGENT
CaselawBudgetSpent(a) == a.rc >= CaselawBudget

\* the ValueError of a 401 reached the agent
AuthFailure(a) == [a EXCEPT !.authSeen = TRUE]

\* a call to the case-law source returned to the agent
Answered(a) == [a EXCEPT !.answered = TRUE]

RECURSIVE CaselawFetch(_)
\* the head of "for hit in hits_list": get_opinion is called when the hit
\* has an opinion_id and budget is left
CaselawFetch(a) ==
    IF a.idx > Min(Len(a.found), HitsListCap)
    THEN {Evaluate(a)}
    ELSE LET rest == [a EXCEPT !.idx = @ + 1] IN
         CaselawFetch(rest)
         \cup (IF CaselawBudgetSpent(a) THEN {} ELSE {Request(rest, "fetch")})

\* "if not all_hits: return []", else hits_list = list(all_hits.values())[:5]
CaselawAfterSearch(a) ==
    IF a.found = <<>> THEN {Returned(a, <<>>)} ELSE CaselawFetch([a EXCEPT !.idx = 1])

\* the head of "for query in search_plan.get('search_queries', [])[:5]"
CaselawSearches(a) ==
    IF a.nQ = 0 \/ CaselawBudgetSpent(a)
    THEN CaselawAfterSearch([StopAt(a, a.nQ, CaselawBudgetSpent(a)) EXCEPT !.nQ = 0])
    ELSE {Request([a EXCEPT !.nQ = @ - 1], "search")}

RECURSIVE MergeHits(_, _)
\* all_hits after up to n hits were walked through: "if key not in all_hits:
\* all_hits[key] = hit"
MergeHits(found, n) ==
    IF n = 0 THEN {found}
    ELSE LET before == MergeHits(found, n - 1) IN
         before \cup UNION {{Put(h, k) : k \in DrawKeys(h)} : h \in before}

\* the plan call returns: it failed ("return []"), gave what has no
\* get() or no list to slice (the loop head raises), or gave a plan
CaselawPlanReturns(a) ==
    {PlanFailed(a), Raised(a)}
    \cup UNION {CaselawSearches([a EXCEPT !.nQ = Min(nq, MaxQueries)]) : nq \in 0..PlanMax}

\* cl_client.search returns hits (none after a transient failure), or
\* raises the authentication failure, which "except Exception" catches
CaselawSearchReturns(a) ==
    UNION {CaselawSearches([Answered(a) EXCEPT !.found = h]) :
               h \in MergeHits(a.found, HitMax)}
    \cup CaselawSearches(AuthFailure(a))

\* cl_client.get_opinion returns (an opinion or None), or raises the
\* authentication failure, which "except Exception" catches
CaselawOpinionReturns(a) ==
    CaselawFetch(Answered(a)) \cup CaselawFetch(AuthFailure(a))

\* ---- one step of a sub-agent -------------------------------------------
AgentReturns(a) ==
    CASE a.kind = "statute" /\ a.pc = "plan"    -> StatutePlanReturns(a)
      [] a.kind = "statute" /\ a.pc = "lookup"  -> StatuteLookupReturns(a)
      [] a.kind = "statute" /\ a.pc = "ksearch" -> StatuteKeywordReturns(a)
      [] a.kind = "statute" /\ a.pc = "klookup" -> StatuteKLookupReturns(a)
      [] a.kind = "caselaw" /\ a.pc = "plan"    -> CaselawPlanReturns(a)
      [] a.kind = "caselaw" /\ a.pc = "search"  -> CaselawSearchReturns(a)
      [] a.kind = "caselaw" /\ a.pc = "fetch"   -> CaselawOpinionReturns(a)
      [] a.pc = "eval"                          -> EvalReturns(a)
      [] OTHER                                  -> {}

\* no sub-agent exists (the specifications of the other components)
AgentsOff ==
    /\ ag = [i \in Tasks |-> IdleAgent]
    /\ mode = "off"

\* ---- a sub-agent run on its own (as scripts/test_statutes.py does) -----
StandaloneInit ==
    /\ ag = [i \in Tasks |-> IdleAgent]
    /\ mode = "standalone"

\* the harness calls one of the two agents
StandaloneCall(kind) ==
    /\ ag[1].pc = "idle"
    /\ ag' = [ag EXCEPT ![1] = CalledAgent(kind, 1)]
    /\ UNCHANGED mode
    /\ UNCHANGED notAgents

\* the call the agent is suspended in returns
StandaloneStep(pc) ==
    /\ ag[1].pc = pc
    /\ \E a2 \in AgentReturns(ag[1]) : ag' = [ag EXCEPT ![1] = a2]
    /\ UNCHANGED mode
    /\ UNCHANGED notAgents

AgentNext ==
    \/ \E kind \in {"statute", "caselaw"} : StandaloneCall(kind)
    \/ StandaloneStep("plan")
    \/ StandaloneStep("lookup")
    \/ StandaloneStep("ksearch")
    \/ StandaloneStep("klookup")
    \/ StandaloneStep("search")
    \/ StandaloneStep("fetch")
    \/ StandaloneStep("eval")

\* ========================================================================
\* SSEManager: the per-run event bus, and the stream_case consumers
\*
\* asyncio.Queue() is unbounded, so "await queue.put(x)" never suspends:
\* emit and close run to their end without another coroutine in between.
\* ========================================================================
Runs == 1..MaxRuns
QueueIds == 1..MaxQueues

\* a StreamEvent: its type and what the claims read of its payload
Event(type, key, status, n) == [type |-> type, key |-> key, status |-> status, n |-> n]

\* the None that close() enqueues
EndOfStream == Event("None", 0, "", 0)

\* self._queues.get(run_id, [])
Registered(run_id) == IF run_id \in DOMAIN queues THEN queues[run_id] ELSE <<>>

RECURSIVE PutEach(_, _, _)
\* "for queue in qs: await queue.put(item)", on the buffers bufs
PutEach(bufs, qs, item) ==
    IF qs = <<>> THEN bufs
    ELSE PutEach([bufs EXCEPT ![Head(qs)] = Append(@, item)], Tail(qs), item)

\* an emit that reaches the queues of every run
EmitToEveryRun(bufs, run_id, event) ==
    [q \in DOMAIN bufs |-> IF sub[q].state = "open" THEN Append(bufs[q], event) ELSE bufs[q]]

\* an emit that reaches the first registered queue only
EmitToFirstOnly(bufs, run_id, event) ==
    PutEach(bufs, Take(Registered(run_id), 1), event)

\* SSEManager.emit(run_id, event)
Emit(bufs, run_id, event) == PutEach(bufs, Registered(run_id), event)

RECURSIVE EmitAll(_, _, _)
\* emit called for each of events, in order
EmitAll(bufs, run_id, events) ==
    IF events = <<>> THEN bufs
    ELSE EmitAll(Emit(bufs, run_id, Head(events)), run_id, Tail(events))

\* a close that enqueues the marker twice
CloseTwice(bufs, run_id) ==
    PutEach(PutEach(bufs, Registered(run_id), EndOfStream), Registered(run_id), EndOfStream)

\* a close that enqueues nothing
CloseNothing(bufs, run_id) == bufs

\* SSEManager.close(run_id)
Close(bufs, run_id) == PutEach(bufs, Registered(run_id), EndOfStream)

\* SSEManager.subscribe: self._queues[run_id].append(queue)
AfterSubscribe(run_id, q) ==
    IF run_id \in DOMAIN queues
    THEN [queues EXCEPT ![run_id] = Append(@, q)]
    ELSE [r \in DOMAIN queues \cup {run_id} |-> IF r = run_id THEN <<q>> ELSE queues[r]]

\* an unsubscribe that drops the run's whole entry
UnsubscribeDropsRun(run_id, q) ==
    [r \in DOMAIN queues \ {run_id} |-> queues[r]]

\* SSEManager.unsubscribe: the list without queue; the entry goes when the
\* list is empty
AfterUnsubscribe(run_id, q) ==
    IF run_id \notin DOMAIN queues THEN queues
    ELSE LET rest == SelectSeq(queues[run_id], LAMBDA x : x # q) IN
         IF rest = <<>>
         THEN [r \in DOMAIN queues \ {run_id} |-> queues[r]]
         ELSE [queues EXCEPT ![run_id] = rest]

\* no queue exists, nothing was emitted
BusInit ==
    /\ queues = << >>
    /\ qbuf = [q \in QueueIds |-> <<>>]
    /\ got = [q \in QueueIds |-> <<>>]
    /\ sub = [q \in QueueIds |-> [state |-> "free", run_id |-> 0, since |-> 0, until |-> 0]]
    /\ elog = [r \in Runs |-> <<>>]
    /\ closed = [r \in Runs |-> 0]

\* stream_case(run_id): a new queue is subscribed and the generator starts
Subscribe(q, run_id) ==
    /\ sub[q].state = "free"
    /\ \A p \in QueueIds : p < q => sub[p].state # "free"
    /\ queues' = AfterSubscribe(run_id, q)
    /\ sub' = [sub EXCEPT ![q] = [state |-> "open", run_id |-> run_id,
                                  since |-> Len(elog[run_id]), until |-> 0]]
    /\ UNCHANGED <<qbuf, got, elog, closed>>
    /\ UNCHANGED notBus

\* event_generator: "event = await queue.get()"; None ends the loop and the
\* finally clause unsubscribes, anything else is yielded to the client
ConsumerGet(q) ==
    /\ sub[q].state = "open"
    /\ qbuf[q] # <<>>
    /\ qbuf' = [qbuf EXCEPT ![q] = Tail(@)]
    /\ got' = [got EXCEPT ![q] = Append(@, Head(qbuf[q]))]
    /\ IF Head(qbuf[q]) = EndOfStream
       THEN /\ queues' = AfterUnsubscribe(sub[q].run_id, q)
            /\ sub' = [sub EXCEPT ![q].state = "ended",
                                  ![q].until = Len(elog[sub[q].run_id])]
       ELSE UNCHANGED <<queues, sub>>
    /\ UNCHANGED <<elog, closed>>
    /\ UNCHANGED notBus

\* the client goes away: the generator is closed and its finally clause
\* runs; nothing refers to the queue any more
ConsumerDisconnect(q) ==
    /\ sub[q].state = "open"
    /\ queues' = AfterUnsubscribe(sub[q].run_id, q)
    /\ sub' = [sub EXCEPT ![q] = [state |-> "gone", run_id |-> 0, since |-> 0, until |-> 0]]
    /\ qbuf' = [qbuf EXCEPT ![q] = <<>>]
    /\ got' = [got EXCEPT ![q] = <<>>]
    /\ UNCHANGED <<elog, closed>>
    /\ UNCHANGED notBus

\* ---- the bus on its own: any caller emits and closes -------------------
\* the events a caller of the bus alone emits
BusEvents == {Event("statute_progress", 1, "searching", 0), Event("statute_found", 1, "", 1)}

BusEmit(run_id, event) ==
    /\ Len(elog[run_id]) < MaxEmits
    /\ qbuf' = Emit(qbuf, run_id, event)
    /\ elog' = [elog EXCEPT ![run_id] = Append(@, event)]
    /\ UNCHANGED <<queues, got, sub, closed>>
    /\ UNCHANGED notBus

BusClose(run_id) ==
    /\ closed[run_id] < MaxCloses
    /\ qbuf' = Close(qbuf, run_id)
    /\ closed' = [closed EXCEPT ![run_id] = @ + 1]
    /\ UNCHANGED <<queues, got, sub, elog>>
    /\ UNCHANGED notBus

BusNext ==
    \/ \E q \in QueueIds, run_id \in Runs : Subscribe(q, run_id)
    \/ \E q \in QueueIds : ConsumerGet(q)
    \/ \E q \in QueueIds : ConsumerDisconnect(q)
    \/ \E run_id \in Runs, event \in BusEvents : BusEmit(run_id, event)
    \/ \E run_id \in Runs : BusClose(run_id)

\* ========================================================================
\* The pipeline task of one run: routes._run_pipeline, which calls
\* master_agent.run_master_pipeline and _execute_pipeline
\*
\* The task is a coroutine; pl.pc is the call it is suspended in.  The
\* operators below are the code between two such calls: each takes the
\* task's state st = [run, pl, ag, out] and gives it back as it is at the
\* next suspension, out being the events emitted on the way, in order.
\* A gather of no task and the close() of a client never opened return
\* at once, so the code runs on through them.
\* ========================================================================
\* the run the pipeline task works for
ThisRun == 1

\* RunState(run_id, fact_pattern_text): the fields the task writes
NewRun ==
    [status |-> "pending", error |-> "",
     fp |-> FALSE,         \* fact_pattern is set
     issues |-> 0,         \* the fact pattern's issues have the ids 1..issues
     statutes |-> <<>>, case_law |-> <<>>]

NewPipeline ==
    [pc |-> "pending",
     wave |-> 0,           \* the wave whose tasks ag holds
     ntasks |-> 0,         \* how many tasks that wave launched
     cands |-> <<>>,       \* all_statute_results / all_caselaw_results, from the
                           \*   fan-in to their last use
     exc |-> "",           \* the exception on its way out of the task
     failed |-> "",        \* the call of the orchestrator that failed first
     failedAt |-> 0,       \* the number of events emitted before it failed
     synthCalled |-> {},   \* the waves whose synthesis call was made
     closedFor |-> <<>>]   \* the queues registered when the stream was closed

St(r, p, a, o) == [run |-> r, pl |-> p, ag |-> a, out |-> o]

Emits(st, events) == [st EXCEPT !.out = @ \o events]

\* a task of a wave, created by gather and not yet run
NewTask(kind, issue, statute) ==
    [IdleAgent EXCEPT !.kind = kind, !.pc = "start", !.issue = issue, !.statute = statute]

\* gather(*tasks): the tasks of a wave, in launch order
Launch(st, wave, tasks) ==
    [st EXCEPT !.ag = [i \in Tasks |-> IF i <= Len(tasks) THEN tasks[i] ELSE IdleAgent],
               !.pl.wave = wave, !.pl.ntasks = Len(tasks),
               !.pl.pc = IF wave = 1 THEN "wave1" ELSE "wave2"]

\* ---- the end of the task: routes._run_pipeline --------------------------
\* "finally: await sse_manager.close(run_id)": the task is over
StreamClosed(st) == [st EXCEPT !.pl.pc = "done", !.pl.closedFor = Registered(ThisRun)]

\* a task that ends without writing the status
CompletedLeftRunning(st) == StreamClosed(st)

\* run.status = "complete"
Completed(st) == StreamClosed([st EXCEPT !.run.status = "complete"])

\* an except clause that emits no error event
ErroredNoEvent(st, msg) ==
    StreamClosed([st EXCEPT !.run.status = "error", !.run.error = msg])

\* an except clause that also drops what the run holds
ErroredResultsCleared(st, msg) ==
    StreamClosed(Emits([st EXCEPT !.run = [NewRun EXCEPT !.status = "error", !.error = msg]],
                       <<Event("error", 0, "", 0)>>))

\* "except Exception as e": status, message and the error event
Errored(st, msg) ==
    StreamClosed(Emits([st EXCEPT !.run.status = "error", !.run.error = msg],
                       <<Event("error", 0, "", 0)>>))

\* what run_master_pipeline leaves _run_pipeline with
Outcome(st, exc) == IF exc = "" THEN Completed(st) ELSE Errored(st, exc)

\* the status written before the client is closed
ReleaseStatusFirst(st, exc) ==
    IF clOpen
    THEN [st EXCEPT !.pl.pc = "closing", !.pl.exc = exc,
                    !.run.status = IF exc = "" THEN "complete" ELSE "error"]
    ELSE Outcome(st, exc)

\* run_master_pipeline's "finally: await cl_client.close()": a client that
\* holds a connection is closed, which suspends the task
Release(st, exc) ==
    IF clOpen THEN [st EXCEPT !.pl.pc = "closing", !.pl.exc = exc]
    ELSE Outcome(st, exc)

\* a call of the orchestrator raises
Fails(st, call) ==
    Release([st EXCEPT !.pl.failed = call,
                       !.pl.failedAt = Len(elog[ThisRun]) + Len(st.out)], call)

\* ---- _execute_pipeline -------------------------------------------------
\* run_complete emitted before wave2_complete
FinishCompleteFirst(st) ==
    Release(Emits(st, <<Event("run_complete", 0, "", 0),
                        Event("wave2_complete", 0, "", Len(st.run.case_law))>>), "")

\* wave2_complete and run_complete, then the return
Finish(st) ==
    Release(Emits(st, <<Event("wave2_complete", 0, "", Len(st.run.case_law)),
                        Event("run_complete", 0, "", 0)>>), "")

RECURSIVE FlattenFirst(_, _)
\* a fan-in that stops at the first task that raised
FlattenFirst(agents, n) ==
    IF n = 0 THEN <<>>
    ELSE IF \E i \in 1..n : agents[i].out = "raised"
         THEN FlattenFirst(agents, n - 1)
         ELSE FlattenFirst(agents, n - 1) \o agents[n].res

RECURSIVE Flatten(_, _)
\* "for result in results: if isinstance(result, Exception): continue;
\* all.extend(result)" over the first n tasks
Flatten(agents, n) ==
    IF n = 0 THEN <<>>
    ELSE Flatten(agents, n - 1)
         \o (IF agents[n].out = "raised" THEN <<>> ELSE agents[n].res)

\* the position of the last candidate with the identity (0: None)
OriginalLast(cands, key) ==
    LET at == {j \in 1..Len(cands) : cands[j].key = key} IN
    IF at = {} THEN 0 ELSE CHOOSE j \in at : \A k \in at : j >= k

\* next((c for c in candidates if c.code == ... and c.section == ...), None):
\* the position of the first candidate with the identity (0: None)
Original(cands, key) ==
    LET at == {j \in 1..Len(cands) : cands[j].key = key} IN
    IF at = {} THEN 0 ELSE CHOOSE j \in at : \A k \in at : j <= k

\* the loop over synth_data.get("ranked_statutes", [])[:4]: each item as
\* the service gave it, with full_text and url of its original (src)
Rehydrated(resp, cands) ==
    LET items == Take(resp, SynthCap) IN
    [j \in 1..Len(items) |->
        [key |-> items[j].key, conf |-> items[j].conf, issue |-> items[j].issue,
         src |-> Original(cands, items[j].key)]]

\* the loop over synth_data.get("ranked_cases", [])[:4]: each item as the
\* service gave it
Ranked(resp) ==
    LET items == Take(resp, SynthCap) IN
    [j \in 1..Len(items) |->
        [key |-> items[j].key, conf |-> items[j].conf, issue |-> items[j].issue,
         src |-> 0]]

\* the second synthesis call returned resp
AfterSynth2(st, resp) ==
    Finish([st EXCEPT !.run.case_law = Ranked(resp), !.pl.cands = <<>>])

\* the synthesis call of wave 2 made whatever the candidates
AfterWave2Always(st) ==
    [st EXCEPT !.pl.cands = Flatten(st.ag, st.pl.ntasks), !.pl.pc = "synth2",
               !.pl.synthCalled = @ \cup {2}]

\* a wave 2 without candidates that ends the run with no wave2_complete
AfterWave2Silent(st) ==
    LET cands == Flatten(st.ag, st.pl.ntasks) IN
    IF cands # <<>>
    THEN [st EXCEPT !.pl.cands = cands, !.pl.pc = "synth2", !.pl.synthCalled = @ \cup {2}]
    ELSE Release(Emits([st EXCEPT !.pl.cands = cands, !.run.case_law = <<>>],
                       <<Event("run_complete", 0, "", 0)>>), "")

\* the tasks of wave 2 are done: the case-law synthesis call when there
\* are candidates, else "run.case_law = []"
AfterWave2(st) ==
    LET cands == Flatten(st.ag, st.pl.ntasks) IN
    IF cands # <<>>
    THEN [st EXCEPT !.pl.cands = cands, !.pl.pc = "synth2", !.pl.synthCalled = @ \cup {2}]
    ELSE Finish([st EXCEPT !.pl.cands = cands, !.run.case_law = <<>>])

\* a pairing that has no issue for a statute whose source_issue_id is the
\* id of none
IssueOfMatchOnly(n, id) == IF id \in 1..n THEN id ELSE 0

\* issue_map.get(statute.source_issue_id) or (issues[0] if issues else None);
\* 0 stands for None
IssueOf(n, id) == IF id \in 1..n THEN id ELSE IF n > 0 THEN 1 ELSE 0

\* the case-law tasks launched without wave1_complete before them
LaunchWave2Unannounced(st) ==
    LET n == Len(st.run.statutes)
        paired == SelectSeq(st.run.statutes, LAMBDA s : IssueOf(st.run.issues, s.issue) # 0)
        tasks == [j \in 1..Len(paired) |->
                    NewTask("caselaw", IssueOf(st.run.issues, paired[j].issue), paired[j].key)]
        started == Launch(Emits(st, <<Event("wave2_started", 0, "", n)>>), 2, tasks)
    IN IF tasks = <<>> THEN AfterWave2(started) ELSE started

\* wave1_complete, wave2_started and one case-law task per statute that has
\* an issue
LaunchWave2(st) ==
    LET n == Len(st.run.statutes)
        paired == SelectSeq(st.run.statutes, LAMBDA s : IssueOf(st.run.issues, s.issue) # 0)
        tasks == [j \in 1..Len(paired) |->
                    NewTask("caselaw", IssueOf(st.run.issues, paired[j].issue), paired[j].key)]
        started == Launch(Emits(st, <<Event("wave1_complete", 0, "", n),
                                      Event("wave2_started", 0, "", n)>>), 2, tasks)
    IN IF tasks = <<>> THEN AfterWave2(started) ELSE started

\* the first synthesis call returned resp
AfterSynth1(st, resp) ==
    LaunchWave2([st EXCEPT !.run.statutes = Rehydrated(resp, st.pl.cands), !.pl.cands = <<>>])

\* the synthesis call of wave 1 made whatever the candidates
AfterWave1Always(st) ==
    [st EXCEPT !.pl.cands = Flatten(st.ag, st.pl.ntasks), !.pl.pc = "synth1",
               !.pl.synthCalled = @ \cup {1}]

\* the tasks of wave 1 are done: the statute synthesis call when there are
\* candidates, else "run.statutes = []"
AfterWave1(st) ==
    LET cands == Flatten(st.ag, st.pl.ntasks) IN
    IF cands # <<>>
    THEN [st EXCEPT !.pl.cands = cands, !.pl.pc = "synth1", !.pl.synthCalled = @ \cup {1}]
    ELSE LaunchWave2([st EXCEPT !.pl.cands = cands, !.run.statutes = <<>>])

\* fp_data.get("issues", [])[:4]: how many of n issues the fact pattern holds
IssuesKept(n) == Min(n, IssueCap)

\* the fact-pattern call returned n issues: "[:4]", run.fact_pattern, the
\* fact_pattern and wave1_started events and one statute task per issue
AfterFactPattern(st, n) ==
    LET k == IssuesKept(n)
        tasks == [i \in 1..k |-> NewTask("statute", i, 0)]
        started == Launch(Emits([st EXCEPT !.run.fp = TRUE, !.run.issues = k],
                                <<Event("fact_pattern", 0, "", k),
                                  Event("wave1_started", 0, "", k)>>), 1, tasks)
    IN IF tasks = <<>> THEN AfterWave1(started) ELSE started

\* ---- the task wrappers: _run_statute_with_progress and
\* ---- _run_caselaw_with_progress -----------------------------------------
ProgressType(kind) == IF kind = "statute" THEN "statute_progress" ELSE "caselaw_progress"
FoundType(kind) == IF kind = "statute" THEN "statute_found" ELSE "caselaw_found"

\* the key of a progress event: the issue id, or the statute
ProgressKey(a) == IF a.kind = "statute" THEN a.issue ELSE a.statute

\* the events after the agent returned: one found event per result, then
\* the progress event with the count
ReturnEvents(a) ==
    [j \in 1..Len(a.res) |-> Event(FoundType(a.kind), a.res[j].issue, "", a.res[j].key)]
    \o <<Event(ProgressType(a.kind), ProgressKey(a), "complete", Len(a.res))>>

\* a task that is over: its frame is gone, its result (or exception) stays
Finished(a) ==
    [IdleAgent EXCEPT !.kind = a.kind, !.pc = "done", !.issue = a.issue,
                      !.statute = a.statute, !.out = a.out, !.res = a.res,
                      !.authSeen = a.authSeen, !.calledAfterAuth = a.calledAfterAuth,
                      !.answered = a.answered]

\* ---- what the completion service may answer the orchestrator ----------
\* one item of a synthesis: identity, confidence (tenths), source_issue_id
\* (0: the id of no issue)
SynthItems == [key : 1..PipeKeys, conf : SynthConfs, issue : 0..PipeIssueIds]

SynthResponses == SeqsUpTo(SynthItems, Min(MaxSynth, MaxTasks))

\* StatuteResult(...) / CaseLawResult(...) rejects an item among the first 4
SynthInvalid(resp) ==
    \E j \in 1..Min(Len(resp), SynthCap) : resp[j].conf > ConfMax

\* ---- the actions --------------------------------------------------------
Here == St(run, pl, ag, <<>>)

\* the task's state at its next suspension, and its events on the bus
Commit(st) ==
    /\ run' = st.run
    /\ pl' = st.pl
    /\ ag' = st.ag
    /\ elog' = [elog EXCEPT ![ThisRun] = @ \o st.out]
    /\ qbuf' = IF st.pl.pc = "done"
               THEN Close(EmitAll(qbuf, ThisRun, st.out), ThisRun)
               ELSE EmitAll(qbuf, ThisRun, st.out)
    /\ closed' = IF st.pl.pc = "done" THEN [closed EXCEPT ![ThisRun] = @ + 1] ELSE closed
    /\ UNCHANGED <<queues, got, sub, mode, syn, clients, scraper>>
    /\ UNCHANGED bucketVars

\* no pipeline task exists (the specifications of the other components)
PipelineOff ==
    /\ run = NewRun
    /\ pl = [NewPipeline EXCEPT !.pc = "off"]
    /\ clOpen = FALSE

\* no reduction is applied on its own
IdleSynth ==
    [pc |-> "idle", wave |-> 0,
     given |-> 0,      \* how many issues, or items, the service listed
     issues |-> 0, cands |-> <<>>,
     resp |-> <<>>,    \* the list a synthesis gave
     evals |-> <<>>,   \* the items of an evaluation
     out |-> <<>>, raised |-> FALSE]

SynthOff == syn = IdleSynth

\* create_case has stored the run and scheduled its task
PipelineInit ==
    /\ run = NewRun
    /\ pl = NewPipeline
    /\ clOpen = FALSE
    /\ ag = [i \in Tasks |-> IdleAgent]
    /\ mode = "pipeline"
    /\ SynthOff

\* _run_pipeline starts: status running, run_started, the fact-pattern call
PipelineStart ==
    /\ pl.pc = "pending"
    /\ Commit(Emits([Here EXCEPT !.run.status = "running", !.pl.pc = "fact_pattern"],
                    <<Event("run_started", 0, "", 0)>>))
    /\ UNCHANGED clOpen

\* the fact-pattern call returns issues, or it (or building the FactPattern)
\* raises
FactPatternReturns ==
    /\ pl.pc = "fact_pattern"
    /\ \/ \E n \in 0..MaxTasks : Commit(AfterFactPattern(Here, n))
       \/ Commit(Fails(Here, "fact_pattern"))
    /\ UNCHANGED clOpen

\* a task of the wave gets to run: the "searching" event, then the agent is
\* called.  gather schedules the first step of each task in launch order,
\* and the event loop runs what is scheduled first in, first out.
TaskStart(i) ==
    /\ ag[i].pc = "start"
    /\ \A j \in 1..(i - 1) : ag[j].pc # "start"
    /\ Commit(Emits([Here EXCEPT !.ag[i].pc = "plan"],
                    <<Event(ProgressType(ag[i].kind), ProgressKey(ag[i]), "searching", 0)>>))
    /\ UNCHANGED clOpen

\* the call the agent of a task is suspended in returns; when the agent is
\* over the wrapper emits its events and the task is over, or the agent's
\* exception ends the task
TaskStep(i) ==
    /\ ag[i].pc \notin {"idle", "start", "done"}
    /\ \A j \in Tasks : ag[j].pc # "start"
    /\ \E a2 \in AgentReturns(ag[i]) :
          /\ Commit(IF a2.pc # "done" THEN [Here EXCEPT !.ag[i] = a2]
                    ELSE IF a2.out = "raised" THEN [Here EXCEPT !.ag[i] = Finished(a2)]
                    ELSE Emits([Here EXCEPT !.ag[i] = Finished(a2)], ReturnEvents(a2)))
          /\ clOpen' = (clOpen \/ a2.pc \in {"search", "fetch"})

\* every task of the wave is over: gather returns
WaveJoin ==
    /\ pl.pc \in {"wave1", "wave2"}
    /\ \A i \in 1..pl.ntasks : ag[i].pc = "done"
    /\ Commit(IF pl.pc = "wave1" THEN AfterWave1(Here) ELSE AfterWave2(Here))
    /\ UNCHANGED clOpen

\* a synthesis call returns a list, or it (or building a result) raises
SynthesisReturns ==
    /\ pl.pc \in {"synth1", "synth2"}
    /\ \/ \E resp \in SynthResponses :
             Commit(IF SynthInvalid(resp) THEN Fails(Here, pl.pc)
                    ELSE IF pl.pc = "synth1" THEN AfterSynth1(Here, resp)
                    ELSE AfterSynth2(Here, resp))
       \/ Commit(Fails(Here, pl.pc))
    /\ UNCHANGED clOpen

\* cl_client.close() returns, or raises
ClientCloseReturns ==
    /\ pl.pc = "closing"
    /\ \/ /\ Commit(Outcome(Here, pl.exc))
          /\ clOpen' = FALSE
       \/ /\ Commit(Errored(Here, "close"))
          /\ UNCHANGED clOpen

\* stream_case for the run, and its generator
StreamNext ==
    \/ \E q \in 1..PipeQueues : Subscribe(q, ThisRun)
    \/ \E q \in QueueIds : ConsumerGet(q)
    \/ \E q \in QueueIds : ConsumerDisconnect(q)

Next ==
    \/ PipelineStart
    \/ FactPatternReturns
    \/ \E i \in Tasks : TaskStart(i)
    \/ \E i \in Tasks : TaskStep(i)
    \/ WaveJoin
    \/ SynthesisReturns
    \/ ClientCloseReturns
    \/ StreamNext

\* ========================================================================
\* The reductions of the orchestrator, each applied on its own to what the
\* completion service may answer: the fact pattern's issue list, and the
\* final list of a wave made from a synthesis; and the reduction of a
\* sub-agent applied to what its evaluation may be
\* ========================================================================
\* the candidates a wave may hand to its synthesis: results of sub-agents
SynthCandidates ==
    SeqsUpTo([key : 1..SynthKeys, conf : {ConfThreshold, 8}, issue : {1}], SynthCandMax)
        \ {<<>>}

\* the lists a synthesis may give
SynthAnswers ==
    SeqsUpTo([key : 1..SynthKeys, conf : ConfValues \ {ConfThreshold}, issue : {1}],
             SynthLenMax)

\* the final list of the wave: all of resp converted, none left out
FinalListUncapped(wave, resp, cands) ==
    [j \in 1..Len(resp) |->
        [key |-> resp[j].key, conf |-> resp[j].conf, issue |-> resp[j].issue, src |-> 0]]

\* the final list of the wave, made from the synthesis resp
FinalList(wave, resp, cands) ==
    IF wave = 1 THEN Rehydrated(resp, cands) ELSE Ranked(resp)

\* the fact-pattern call returned n issues
FactPatternParsed ==
    /\ syn.pc = "idle"
    /\ \E n \in 0..FpIssuesMax :
          syn' = [syn EXCEPT !.pc = "parsed", !.given = n, !.issues = IssuesKept(n)]
    /\ UNCHANGED <<bucketVars, agentVars, busVars, pipeVars, clients, scraper>>

\* a wave has candidates: "if all_statute_candidates:" / "if
\* all_caselaw_candidates:", the synthesis call is made
SynthesisCalled ==
    /\ syn.pc = "idle"
    /\ \E wave \in {1, 2}, cands \in SynthCandidates :
          syn' = [syn EXCEPT !.pc = "called", !.wave = wave, !.cands = cands]
    /\ UNCHANGED <<bucketVars, agentVars, busVars, pipeVars, clients, scraper>>

\* the synthesis call returns resp, which is converted, or building a
\* result raises
SynthesisAnswered ==
    /\ syn.pc = "called"
    /\ \E resp \in SynthAnswers :
          syn' = IF SynthInvalid(resp)
                 THEN [syn EXCEPT !.pc = "done", !.given = Len(resp), !.resp = resp,
                                  !.raised = TRUE]
                 ELSE [syn EXCEPT !.pc = "done", !.given = Len(resp), !.resp = resp,
                                  !.out = FinalList(syn.wave, resp, syn.cands)]
    /\ UNCHANGED <<bucketVars, agentVars, busVars, pipeVars, clients, scraper>>

\* the evaluations a sub-agent may be given
Evaluations == SeqsUpTo(EvalItems(AgentEvalKeys, ConfValues), AgentEvalMax)

\* a sub-agent's evaluate call returned evals: the conversion loop, the sort
\* and the cut give the list the agent returns, or building a result raises
EvaluationConverted ==
    /\ syn.pc = "idle"
    /\ \E evals \in Evaluations :
          syn' = LET r == SelectResults(evals) IN
                 [syn EXCEPT !.pc = "selected", !.evals = evals, !.given = Len(evals),
                             !.raised = r.raised, !.out = FromIssue(r.list, 1)]
    /\ UNCHANGED <<bucketVars, agentVars, busVars, pipeVars, clients, scraper>>

SynthNext ==
    \/ FactPatternParsed
    \/ EvaluationConverted
    \/ SynthesisCalled
    \/ SynthesisAnswered

\* ========================================================================
\* The case-law clients of runs under way together.  run_master_pipeline
\* makes a CourtListenerClient for its run, and the client's __init__ makes
\* the client's TokenBucket.  No time passes here: a limiter gets no refill,
\* so a call goes through at once while its limiter holds a token.
\* ========================================================================
ClientRuns == 1..MaxClientRuns

\* no run has started its pipeline
NoCall == [op |-> "none", resp |-> "none", raised |-> FALSE, value |-> "none",
           acquires |-> 0, requests |-> 0]

ClientsOff ==
    clients = [r \in ClientRuns |-> [pc |-> "none", limiter |-> 0, tokens |-> 0,
                                     search |-> 0, get_opinion |-> 0, last |-> NoCall]]

\* "cl_client = CourtListenerClient()": "self._rate_limiter =
\* TokenBucket(rate=1.0, capacity=3)", a new object with capacity tokens
ClientCreated(r) ==
    /\ clients[r].pc = "none"
    /\ clients' = [clients EXCEPT ![r] = [pc |-> "running",
                                          limiter |-> Cardinality({q \in ClientRuns : clients[q].pc # "none"}) + 1,
                                          tokens |-> Capacity,
                                          search |-> 0, get_opinion |-> 0, last |-> NoCall]]
    /\ UNCHANGED <<bucketVars, agentVars, busVars, pipeVars, syn, scraper>>

\* a sub-agent of run r calls search or get_opinion: "await
\* self._rate_limiter.acquire()" finds a token, takes it and the request
\* is sent; the call waits for the answer (search and get_opinion count
\* the calls of each kind that wait)
ClientCall(r) ==
    /\ clients[r].pc = "running"
    /\ clients[r].tokens >= 1
    /\ \/ clients' = [clients EXCEPT ![r].tokens = @ - 1, ![r].search = @ + 1]
       \/ clients' = [clients EXCEPT ![r].tokens = @ - 1, ![r].get_opinion = @ + 1]
    /\ UNCHANGED <<bucketVars, agentVars, busVars, pipeVars, syn, scraper>>

\* a search that takes a 401 for any other error status
SearchAbsorbsAll(resp) ==
    IF resp \in {"unauthorized", "not_found", "unavailable", "network_error"}
    THEN [raised |-> FALSE, value |-> "empty"]
    ELSE IF resp = "not_json" THEN [raised |-> TRUE, value |-> "none"]
    ELSE [raised |-> FALSE, value |-> "hits"]

\* search from the answer on: "except httpx.HTTPStatusError" raises
\* ValueError on 401 and returns [] on any other status, "except
\* httpx.HTTPError" returns []; resp.json() is inside the try but its
\* error is no httpx error and leaves the call
SearchOutcome(resp) ==
    IF resp = "unauthorized" THEN [raised |-> TRUE, value |-> "none"]
    ELSE IF resp \in {"not_found", "unavailable", "network_error"}
         THEN [raised |-> FALSE, value |-> "empty"]
    ELSE IF resp = "not_json" THEN [raised |-> TRUE, value |-> "none"]
    ELSE [raised |-> FALSE, value |-> "hits"]

\* get_opinion from the answer on: the same handlers, returning None
OpinionOutcome(resp) ==
    IF resp = "unauthorized" THEN [raised |-> TRUE, value |-> "none"]
    ELSE IF resp \in {"not_found", "unavailable", "network_error"}
         THEN [raised |-> FALSE, value |-> "not_found"]
    ELSE IF resp = "not_json" THEN [raised |-> TRUE, value |-> "none"]
    ELSE [raised |-> FALSE, value |-> "detail"]

\* the answer to one waiting call of run r arrives (a body, a body that is
\* not JSON, HTTP 401, 404 or 503, or no answer at all) and the call ends:
\* it acquired once (the first statement), made the one "await client.get"
\* and has no loop around either
ClientAnswered(r) ==
    /\ clients[r].pc = "running"
    /\ \E resp \in {"ok", "not_json", "unauthorized", "not_found", "unavailable", "network_error"} :
          \/ /\ clients[r].search >= 1
             /\ clients' = [clients EXCEPT ![r].search = @ - 1,
                     ![r].last = [op |-> "search", resp |-> resp,
                                  raised |-> SearchOutcome(resp).raised,
                                  value |-> SearchOutcome(resp).value,
                                  acquires |-> 1, requests |-> 1]]
          \/ /\ clients[r].get_opinion >= 1
             /\ clients' = [clients EXCEPT ![r].get_opinion = @ - 1,
                     ![r].last = [op |-> "get_opinion", resp |-> resp,
                                  raised |-> OpinionOutcome(resp).raised,
                                  value |-> OpinionOutcome(resp).value,
                                  acquires |-> 1, requests |-> 1]]
    /\ UNCHANGED <<bucketVars, agentVars, busVars, pipeVars, syn, scraper>>

\* "finally: await cl_client.close()": the run is over, after the gather
\* of each wave returned, so with no call waiting
ClientClosed(r) ==
    /\ clients[r].pc = "running"
    /\ clients[r].search = 0 /\ clients[r].get_opinion = 0
    /\ clients' = [clients EXCEPT ![r].pc = "over"]
    /\ UNCHANGED <<bucketVars, agentVars, busVars, pipeVars, syn, scraper>>

ClientsNext ==
    \/ \E r \in ClientRuns : ClientCreated(r)
    \/ \E r \in ClientRuns : ClientCall(r)
    \/ \E r \in ClientRuns : ClientAnswered(r)
    \/ \E r \in ClientRuns : ClientClosed(r)

\* ========================================================================
\* The statute source (services/leginfo_scraper.py).  The module holds one
\* semaphore, one _last_request_time and one _section_cache for the
\* process; every statute sub-agent of every run calls into it.  Time is
\* in ticks of half a second.  A caller is a coroutine inside
\* lookup_section_cached or keyword_search; key 0 stands for a keyword
\* search.
\* ========================================================================
ScraperInit ==
    scraper = [now |-> MinGap, last_request_time |-> 0,
               permits |-> Permits, waiters |-> <<>>,
               cache |-> [k \in 1..ScraperKeys |-> "absent"],
               pc |-> [c \in 1..NumLookups |-> "idle"],
               key |-> [c \in 1..NumLookups |-> 0],
               wake |-> [c \in 1..NumLookups |-> 0],
               sent |-> [c \in 1..NumLookups |-> 0],
               \* what the claims are stated on
               calls |-> 0,
               lookups |-> [k \in 1..ScraperKeys |-> 0],
               returned |-> [k \in 1..ScraperKeys |-> "nothing"],
               last |-> [key |-> 0, value |-> "nothing", seen |-> "nothing", network |-> FALSE]]

\* caller c leaves _rate_limit, "_last_request_time = time.monotonic()",
\* and starts its network request (sent keeps the time while the request
\* is under way): lookup_section's "await client.get(url)", or the
\* Playwright search
Sent(s, c) ==
    [s EXCEPT !.last_request_time = s.now, !.wake[c] = 0,
              !.sent[c] = s.now,
              !.pc[c] = IF s.key[c] = 0 THEN "playwright" ELSE "request",
              !.lookups = IF s.key[c] = 0 THEN @ ELSE [@ EXCEPT ![s.key[c]] = @ + 1]]

\* caller c, inside the semaphore, runs "await _rate_limit()" up to its
\* sleep, or through it when the last request is old enough
Limited(s, c) ==
    IF s.now - s.last_request_time < MinGap
    THEN [s EXCEPT !.pc[c] = "sleep", !.wake[c] = s.last_request_time + MinGap]
    ELSE Sent(s, c)

\* "async with _semaphore:" at the entry of a call
Entered(s, c) ==
    IF s.permits > 0 /\ s.waiters = <<>>
    THEN Limited([s EXCEPT !.permits = @ - 1], c)
    ELSE [s EXCEPT !.pc[c] = "sem", !.waiters = Append(@, c)]

\* the end of "async with _semaphore:"
Released(s, c) ==
    [s EXCEPT !.permits = @ + 1, !.pc[c] = "idle", !.key[c] = 0, !.sent[c] = 0]

\* lookup_section_cached(code, section): "if key not in _section_cache"
\* is false and the call returns the entry, or is true and lookup_section
\* begins
LookupCalled(c) ==
    /\ scraper.pc[c] = "idle"
    /\ scraper.calls < MaxLookupCalls
    /\ \E k \in 1..ScraperKeys :
          scraper' =
              IF scraper.cache[k] # "absent"
              THEN [scraper EXCEPT !.calls = @ + 1,
                        !.last = [key |-> k, value |-> scraper.cache[k],
                                  seen |-> scraper.returned[k], network |-> FALSE]]
              ELSE Entered([scraper EXCEPT !.calls = @ + 1, !.key[c] = k], c)
    /\ UNCHANGED <<bucketVars, agentVars, busVars, pipeVars, syn, clients>>

\* keyword_search(keywords)
SearchCalled(c) ==
    /\ scraper.pc[c] = "idle"
    /\ scraper.calls < MaxLookupCalls
    /\ scraper' = Entered([scraper EXCEPT !.calls = @ + 1], c)
    /\ UNCHANGED <<bucketVars, agentVars, busVars, pipeVars, syn, clients>>

\* a permit is free and c is the first waiter of the semaphore
SemGranted(c) ==
    /\ scraper.pc[c] = "sem"
    /\ scraper.permits > 0
    /\ Head(scraper.waiters) = c
    /\ scraper' = Limited([scraper EXCEPT !.permits = @ - 1, !.waiters = Tail(@)], c)
    /\ UNCHANGED <<bucketVars, agentVars, busVars, pipeVars, syn, clients>>

\* "await asyncio.sleep(1.5 - elapsed)" is over:
\* "_last_request_time = time.monotonic()"
RateLimitSlept(c) ==
    /\ scraper.pc[c] = "sleep"
    /\ scraper.now >= scraper.wake[c]
    /\ scraper' = Sent(scraper, c)
    /\ UNCHANGED <<bucketVars, agentVars, busVars, pipeVars, syn, clients>>

\* the answer to lookup_section's request: a page with the section gives
\* a LegInfoSection, any other status, a page without the text and an
\* httpx error give None; lookup_section_cached stores what it got and
\* returns the entry
LookupAnswered(c) ==
    /\ scraper.pc[c] = "request"
    /\ \E resp \in {"ok", "not_200", "no_text", "http_error"} :
          LET k == scraper.key[c]
              value == IF resp = "ok" THEN "section" ELSE "none"
          IN scraper' = Released([scraper EXCEPT
                            !.cache[k] = value,
                            !.returned[k] = IF @ = "nothing" THEN value ELSE @,
                            !.last = [key |-> k, value |-> value,
                                      seen |-> "nothing", network |-> TRUE]], c)
    /\ UNCHANGED <<bucketVars, agentVars, busVars, pipeVars, syn, clients>>

\* keyword_search from its request on: the Playwright search returns, or
\* raises and "_httpx_keyword_search" sends a request of its own; the
\* fallback's answer ends the call
SearchAnswered(c) ==
    /\ \/ /\ scraper.pc[c] = "playwright"
          /\ \/ scraper' = Released(scraper, c)
             \/ scraper' = [scraper EXCEPT !.pc[c] = "fallback", !.sent[c] = scraper.now]
       \/ /\ scraper.pc[c] = "fallback"
          /\ scraper' = Released(scraper, c)
    /\ UNCHANGED <<bucketVars, agentVars, busVars, pipeVars, syn, clients>>

\* clear_cache()
CacheCleared ==
    /\ \E k \in 1..ScraperKeys : scraper.cache[k] # "absent"
    /\ scraper' = [scraper EXCEPT !.cache = [k \in 1..ScraperKeys |-> "absent"],
                                  !.lookups = [k \in 1..ScraperKeys |-> 0],
                                  !.returned = [k \in 1..ScraperKeys |-> "nothing"]]
    /\ UNCHANGED <<bucketVars, agentVars, busVars, pipeVars, syn, clients>>

\* the monotonic clock advances
ScraperTick ==
    /\ \/ scraper.now < ScraperMaxTime
       \/ \E c \in 1..NumLookups : scraper.pc[c] = "sleep" /\ scraper.wake[c] > scraper.now
    /\ scraper' = [scraper EXCEPT !.now = @ + 1]
    /\ UNCHANGED <<bucketVars, agentVars, busVars, pipeVars, syn, clients>>

ScraperNext ==
    \/ \E c \in 1..NumLookups : LookupCalled(c)
    \/ \E c \in 1..NumLookups : SearchCalled(c)
    \/ \E c \in 1..NumLookups : SemGranted(c)
    \/ \E c \in 1..NumLookups : RateLimitSlept(c)
    \/ \E c \in 1..NumLookups : LookupAnswered(c)
    \/ \E c \in 1..NumLookups : SearchAnswered(c)
    \/ CacheCleared
    \/ ScraperTick

\* ========================================================================
\* Specifications
\* ========================================================================
\* the statute source under concurrent callers
InitScraper == ScraperInit /\ BucketInit /\ AgentsOff /\ BusInit /\ PipelineOff /\ SynthOff /\ ClientsOff

SpecScraper == InitScraper /\ [][ScraperNext]_vars

\* the clients of concurrent runs
InitClients == ClientsOff /\ BucketInit /\ AgentsOff /\ BusInit /\ PipelineOff /\ SynthOff /\ ScraperInit

SpecClients == InitClients /\ [][ClientsNext]_vars

\* the token bucket alone
InitBucket == BucketInit /\ AgentsOff /\ BusInit /\ PipelineOff /\ SynthOff /\ ClientsOff /\ ScraperInit

SpecBucket == InitBucket /\ [][BucketNext]_vars

\* one sub-agent run on its own
InitAgent == StandaloneInit /\ BucketInit /\ BusInit /\ PipelineOff /\ SynthOff /\ ClientsOff /\ ScraperInit

\* the event bus alone, with any caller
InitBus == BusInit /\ BucketInit /\ AgentsOff /\ PipelineOff /\ SynthOff /\ ClientsOff /\ ScraperInit

SpecBus == InitBus /\ [][BusNext]_vars

\* the reductions of the orchestrator on their own
InitSynth == SynthOff /\ BucketInit /\ AgentsOff /\ BusInit /\ PipelineOff /\ ClientsOff /\ ScraperInit

SpecSynth == InitSynth /\ [][SynthNext]_vars

\* one run: its pipeline task, the tasks of its waves and its subscribers
Init == PipelineInit /\ BusInit /\ BucketInit /\ ClientsOff /\ ScraperInit

Spec == Init /\ [][Next]_vars

\* ... where a subscriber's generator gets to take what its queue holds
FairSpec == Spec /\ \A q \in QueueIds : WF_vars(ConsumerGet(q))

SpecAgent == InitAgent /\ [][AgentNext]_vars

\* asyncio runs every ready coroutine and every due timer, and time passes
FairSpecBucket ==
    /\ SpecBucket
    /\ \A c \in Callers : WF_vars(LockGranted(c))
    /\ \A c \in Callers : WF_vars(SleepDone(c))
    /\ WF_vars(Tick)

\* ------------------------------------------------------------------------
\* C1: a sub-agent never makes more calls to its external source than its
\* budget: at most 5 (lookup_section_cached plus keyword_search) for a
\* statute agent, at most 10 (search plus get_opinion) for a case-law agent,
\* whatever the plan asks for.
\* ------------------------------------------------------------------------
BudgetOf(kind) == IF kind = "statute" THEN StatuteBudget ELSE CaselawBudget

BudgetRespected ==
    \A i \in Tasks : ag[i].kind # "none" => ag[i].calls <= BudgetOf(ag[i].kind)

\* a statute agent spent its whole budget with results still to fetch
BudgetRespectedWitness ==
    \E i \in Tasks :
        /\ ag[i].kind = "statute"
        /\ ag[i].calls = StatuteBudget
        /\ ag[i].pc = "klookup"
        /\ ag[i].sr > 0

\* ------------------------------------------------------------------------
\* C2: wave isolation.  When the tasks of a wave are joined, every task
\* launched has run to its end, whether others raised or not; the combined
\* candidate list is the concatenation, in launch order, of the lists of the
\* tasks that returned; and the join itself fails nothing (the pipeline
\* goes on to the synthesis call or the next stage).
\* ------------------------------------------------------------------------
RECURSIVE ReturnedInLaunchOrder(_, _)
ReturnedInLaunchOrder(agents, n) ==
    IF n = 0 THEN <<>>
    ELSE ReturnedInLaunchOrder(agents, n - 1)
         \o (IF agents[n].out = "returned" THEN agents[n].res ELSE <<>>)

JoinStep == pl.pc \in {"wave1", "wave2"} /\ pl'.pc # pl.pc

WaveIsolation ==
    [][JoinStep =>
          /\ \A i \in 1..pl.ntasks : ag[i].pc = "done" /\ ag[i].out \in {"returned", "raised"}
          /\ pl'.cands = ReturnedInLaunchOrder(ag, pl.ntasks)
          /\ pl'.failed = "" /\ pl'.exc = ""
          /\ run'.status = IF pl'.pc = "done" THEN "complete" ELSE "running"]_vars

\* two tasks were joined, the first had raised, the second had returned
\* candidates
WaveIsolationWitness ==
    /\ pl.pc = "synth1" /\ pl.ntasks = 2
    /\ ag[1].out = "raised"
    /\ ag[2].out = "returned" /\ ag[2].res # <<>>
    /\ pl.cands = ag[2].res

\* ------------------------------------------------------------------------
\* C3: what a subscriber that subscribed before the run started receives
\* has its stage markers in the order run_started, wave1_complete,
\* wave2_complete, run_complete, error: none comes after a later one, none
\* comes twice.
\* ------------------------------------------------------------------------
StageRank(type) ==
    CASE type = "run_started"    -> 1
      [] type = "wave1_complete" -> 2
      [] type = "wave2_complete" -> 3
      [] type = "run_complete"   -> 4
      [] type = "error"          -> 5
      [] OTHER                   -> 0

StageMarkers(events) == SelectSeq(events, LAMBDA e : StageRank(e.type) > 0)

SubscribedBeforeStart(q) ==
    sub[q].state \in {"open", "ended"} /\ sub[q].run_id = ThisRun /\ sub[q].since = 0

StageMarkersInOrder ==
    \A q \in QueueIds :
        SubscribedBeforeStart(q) =>
            LET ms == StageMarkers(got[q]) IN
            \A a, b \in 1..Len(ms) :
                a < b => StageRank(ms[a].type) < StageRank(ms[b].type)

\* such a subscriber has received the four markers of a complete run, and a
\* found event between two of them
StageMarkersInOrderWitness ==
    \E q \in QueueIds :
        /\ SubscribedBeforeStart(q)
        /\ Len(StageMarkers(got[q])) = 4
        /\ got[q][Len(got[q])].type = "run_complete"
        /\ \E j \in 1..Len(got[q]) : got[q][j].type = "caselaw_found"

\* ------------------------------------------------------------------------
\* C4: every event emitted for a run is put exactly once, and in emission
\* order, on the queue of every subscriber registered for that run at
\* emission time: what a queue was handed (taken or still waiting), the
\* end-of-stream marker aside, is exactly the run's emissions from the
\* moment it subscribed to the moment it unsubscribed (or to now).
\* ------------------------------------------------------------------------
Handed(q) == SelectSeq(got[q] \o qbuf[q], LAMBDA x : x # EndOfStream)

EmittedWhileRegistered(q) ==
    SubSeq(elog[sub[q].run_id], sub[q].since + 1,
           IF sub[q].state = "open" THEN Len(elog[sub[q].run_id]) ELSE sub[q].until)

DeliveredInOrder ==
    \A q \in QueueIds :
        sub[q].state \in {"open", "ended"} => Handed(q) = EmittedWhileRegistered(q)

\* two subscribers of one run, the second one later, were both handed events
DeliveredInOrderWitness ==
    \E p, q \in QueueIds :
        /\ p # q
        /\ sub[p].state = "open" /\ sub[q].state = "open"
        /\ sub[p].run_id = sub[q].run_id
        /\ sub[p].since < sub[q].since
        /\ Len(Handed(q)) >= 1
        /\ Len(Handed(p)) >= 2
        /\ Handed(p)[1] # Handed(p)[2]

\* ------------------------------------------------------------------------
\* C5: the stream is closed exactly when the pipeline task stops, however it
\* stops: the end-of-stream marker is then on the queue of every subscriber
\* registered at that moment, behind every event, and each of them gets to
\* it (or goes away first).
\* ------------------------------------------------------------------------
MarkerHanded(q) ==
    LET handed == got[q] \o qbuf[q] IN
    /\ handed # <<>>
    /\ handed[Len(handed)] = EndOfStream
    /\ \A j \in 1..(Len(handed) - 1) : handed[j] # EndOfStream

StreamClosedAtStop ==
    /\ closed[ThisRun] = (IF pl.pc = "done" THEN 1 ELSE 0)
    /\ pl.pc = "done" =>
          \A q \in QueueIds :
              Contains(pl.closedFor, q) /\ sub[q].state # "gone" =>
                  /\ MarkerHanded(q)
                  /\ sub[q].state = "ended" => got[q][Len(got[q])] = EndOfStream

StreamEndReachesSubscribers ==
    /\ []StreamClosedAtStop
    /\ \A q \in QueueIds :
          (pl.pc = "done" /\ Contains(pl.closedFor, q)) ~> (sub[q].state \in {"ended", "gone"})

\* the run failed, and a subscriber registered when the stream was closed
\* has taken the marker
StreamEndReachesSubscribersWitness ==
    /\ pl.pc = "done" /\ run.status = "error"
    /\ \E q \in QueueIds :
          /\ Contains(pl.closedFor, q)
          /\ sub[q].state = "ended"
          /\ got[q][Len(got[q])] = EndOfStream

\* ------------------------------------------------------------------------
\* C6: once the fact-pattern call or a synthesis call has failed, no
\* run_complete is ever emitted and nothing but one error event is emitted
\* after the failure; when the task has stopped the status is error, the
\* run holds a message, and the run's events hold exactly one error event.
\* ------------------------------------------------------------------------
OfType(events, type) == SelectSeq(events, LAMBDA e : e.type = type)

FailureEndsRun ==
    pl.failed \in {"fact_pattern", "synth1", "synth2"} =>
        LET log == elog[ThisRun]
            after == SubSeq(log, pl.failedAt + 1, Len(log)) IN
        /\ OfType(log, "run_complete") = <<>>
        /\ after \in {<<>>, <<Event("error", 0, "", 0)>>}
        /\ pl.pc \in {"closing", "done"}
        /\ pl.pc = "done" =>
              /\ run.status = "error"
              /\ run.error # ""
              /\ Len(OfType(log, "error")) = 1

\* the case-law synthesis failed, the client was released, the run ended
FailureEndsRunWitness ==
    /\ pl.failed = "synth2"
    /\ pl.pc = "done"
    /\ run.statutes # <<>>

\* ------------------------------------------------------------------------
\* C7: the authentication-failure scenario.  Wave 2 ran, no call to the
\* case-law source was answered, at least one got the authentication
\* failure, and the client was released without an error: then the task
\* stops with case_law empty, no case-law synthesis call made,
\* wave2_complete and run_complete emitted, and status complete.
\* ------------------------------------------------------------------------
AuthFailureScenario ==
    /\ pl.pc = "done"
    /\ pl.wave = 2 /\ pl.ntasks >= 1
    /\ \A i \in 1..pl.ntasks : ~ag[i].answered
    /\ \E i \in 1..pl.ntasks : ag[i].authSeen
    /\ run.error # "close"

AuthFailureIsolated ==
    AuthFailureScenario =>
        /\ run.case_law = <<>>
        /\ 2 \notin pl.synthCalled
        /\ OfType(elog[ThisRun], "wave2_complete") = <<Event("wave2_complete", 0, "", 0)>>
        /\ Len(OfType(elog[ThisRun], "run_complete")) = 1
        /\ run.status = "complete"

AuthFailureIsolatedWitness ==
    /\ AuthFailureScenario
    /\ run.status = "complete"
    /\ \A i \in 1..pl.ntasks : ag[i].authSeen /\ ag[i].out = "returned"

\* ------------------------------------------------------------------------
\* C8: the authentication failure of the case-law client propagates out of
\* the sub-agent that made the call: that agent makes no further external
\* call and its task ends as a failure, not with a list.
\* ------------------------------------------------------------------------
AuthFailurePropagates ==
    \A i \in Tasks :
        ag[i].authSeen =>
            /\ ~ag[i].calledAfterAuth
            /\ ag[i].pc = "done"
            /\ ag[i].out = "raised"

\* ------------------------------------------------------------------------
\* C9: a bucket of rate r and capacity c that starts full lets the k-th
\* acquire() (k > c) return no earlier than (k - c)/r after the first
\* acquire() began; with r = 1/TicksPerToken per tick that is
\* (k - c) * TicksPerToken ticks.  The clock only grows, so it is enough
\* to compare the number of returned calls with the time that has passed.
\* ------------------------------------------------------------------------
ThroughputBound ==
    tbReturned > Capacity =>
        now - tbStart >= (tbReturned - Capacity) * TicksPerToken

\* ------------------------------------------------------------------------
\* C10: acquire() never drops a caller: under fair scheduling every
\* acquire() that was called (the caller waits for the lock or sleeps for a
\* token) returns.  The model has no failing step: with rate > 0 the
\* division of line 64 is defined.
\* ------------------------------------------------------------------------
AcquireReturns ==
    \A c \in Callers : (tbPc[c] # "idle") ~> (tbPc[c] = "idle")

\* a call that had to sleep for its token has returned, nobody is left inside
AcquireReturnsWitness ==
    /\ tbReturned > Capacity
    /\ lockHolder = 0
    /\ \A c \in Callers : tbPc[c] = "idle"

\* ------------------------------------------------------------------------
\* C11: the refill-then-consume sequence of acquire() is mutually exclusive:
\* a caller inside it (it can only be suspended there in its sleep) holds
\* the lock, so at most one caller is inside, the others wait in the
\* lock's queue; and the token count stays within 0..capacity.
\* ------------------------------------------------------------------------
BucketExclusive ==
    /\ tokens >= 0 /\ tokens <= CapacityUnits
    /\ \A c \in Callers : tbPc[c] = "sleeping" => lockHolder = c
    /\ lockHolder # 0 => tbPc[lockHolder] = "sleeping"
    /\ \A c \in Callers : tbPc[c] = "waitlock" <=> Contains(lockWaiters, c)

\* one caller sleeps for a token while another waits for the lock
BucketExclusiveWitness ==
    \E c, d \in Callers :
        /\ tbPc[c] = "sleeping" /\ tbPc[d] = "waitlock"
        /\ tokens < OneToken

\* ------------------------------------------------------------------------
\* C12: the final list of a wave holds at most one item per natural
\* identity, whatever candidates the synthesis was given.
\* ------------------------------------------------------------------------
OnePerIdentity(list) ==
    \A i, j \in 1..Len(list) : i < j => list[i].key # list[j].key

SynthesisDeduplicates ==
    syn.pc = "done" /\ ~syn.raised => OnePerIdentity(syn.out)

\* ------------------------------------------------------------------------
\* C13: the fact pattern holds at most 4 issues and the final list of a
\* wave (run.statutes, run.case_law) at most 4 items, whatever the
\* completion service returns.
\* ------------------------------------------------------------------------
AtMostFour ==
    /\ syn.issues <= 4
    /\ Len(syn.out) <= 4
    /\ run.issues <= 4 /\ Len(run.statutes) <= 4 /\ Len(run.case_law) <= 4

\* the service listed 5 items for wave 1: 4 are kept
AtMostFourWitness ==
    /\ syn.pc = "done" /\ syn.wave = 1
    /\ syn.given = 5 /\ Len(syn.out) = 4
    /\ syn.out[1].src # 0

\* ------------------------------------------------------------------------
\* C14: every item of a wave's final list has confidence >= 0.3.
\* ------------------------------------------------------------------------
FinalConfident(list) == \A j \in 1..Len(list) : list[j].conf >= ConfThreshold

SynthesisDropsLowConfidence ==
    FinalConfident(run.statutes) /\ FinalConfident(run.case_law)

\* ------------------------------------------------------------------------
\* C15  The list a sub-agent returns is made of the evaluation's items that
\* are marked relevant and have confidence >= 0.3, each taken once, in
\* descending order of confidence, cut to the first 2: at most 2 items, none
\* below 0.3, none marked not relevant, and no eligible item left out has a
\* higher confidence than a returned one.
\* ------------------------------------------------------------------------
EligibleAt(evals) == {j \in 1..Len(evals) : evals[j].rel /\ evals[j].conf >= 3}

\* picks maps the positions of list to the positions of the items they
\* were made from
PickedFrom(list, evals, picks) ==
    /\ \A i, k \in 1..Len(list) : picks[i] = picks[k] => i = k
    /\ \A i \in 1..Len(list) :
          /\ picks[i] \in EligibleAt(evals)
          /\ list[i].key = evals[picks[i]].key
          /\ list[i].conf = evals[picks[i]].conf
    /\ \A j \in EligibleAt(evals) :
          (\A i \in 1..Len(list) : picks[i] # j)
              => \A i \in 1..Len(list) : evals[j].conf <= list[i].conf

SelectionPolicy ==
    syn.pc = "selected" /\ ~syn.raised =>
        /\ Len(syn.out) <= 2
        /\ Len(syn.out) = Min(2, Cardinality(EligibleAt(syn.evals)))
        /\ \A i \in 1..Len(syn.out) : syn.out[i].conf >= 3
        /\ \A i \in 1..(Len(syn.out) - 1) : syn.out[i].conf >= syn.out[i + 1].conf
        /\ \E picks \in [1..Len(syn.out) -> 1..Len(syn.evals)] :
              PickedFrom(syn.out, syn.evals, picks)

\* three eligible items, the least confident first, and one is left out
SelectionPolicyWitness ==
    /\ syn.pc = "selected" /\ ~syn.raised
    /\ Cardinality(EligibleAt(syn.evals)) = 3
    /\ syn.evals[1].conf = 3 /\ syn.evals[2].conf = 8 /\ syn.evals[3].conf = 8
    /\ Len(syn.out) = 2
    /\ syn.out[1].conf = 8

\* ------------------------------------------------------------------------
\* C16  When the plan call of a sub-agent fails, the agent returns the empty
\* list and does not raise; it has made no call to its external source and
\* no evaluate call.
\* ------------------------------------------------------------------------
PlanFailureIsolated ==
    \A i \in Tasks :
        ag[i].caught = "plan" =>
            /\ ag[i].pc = "done"
            /\ ag[i].out = "returned"
            /\ ag[i].res = <<>>
            /\ ag[i].calls = 0 /\ ag[i].rc = 0
            /\ ag[i].nEval = 0

PlanFailureIsolatedWitness ==
    /\ ag[1].kind = "caselaw"
    /\ ag[1].caught = "plan"
    /\ ag[1].pc = "done"

\* ------------------------------------------------------------------------
\* C17  When the evaluate call of a sub-agent fails, the agent returns the
\* empty list and does not raise, as for a failed plan call; the evaluate
\* call is made at most once.
\* ------------------------------------------------------------------------
EvalFailureIsolated ==
    \A i \in Tasks :
        /\ ag[i].nEval <= 1
        /\ ag[i].caught = "eval" =>
              /\ ag[i].pc = "done"
              /\ ag[i].out = "returned"
              /\ ag[i].res = <<>>
              /\ ag[i].nEval = 1

\* the evaluate call of a statute agent that found sections failed
EvalFailureIsolatedWitness ==
    /\ ag[1].kind = "statute"
    /\ ag[1].caught = "eval"
    /\ ag[1].pc = "done"
    /\ ag[1].found # <<>>
    /\ ag[1].calls > 0

\* ------------------------------------------------------------------------
\* C18  The waves are sequential.  While wave 1 or its synthesis is under
\* way there is no case-law sub-agent and the case-law source has not been
\* called; every case-law progress or found event comes after
\* wave1_complete; every statute progress or found event comes after
\* wave1_started and before wave1_complete.
\* ------------------------------------------------------------------------
EmittedBefore(log, j, type) == \E k \in 1..(j - 1) : log[k].type = type

WavesSequential ==
    LET log == elog[ThisRun] IN
    /\ \A j \in 1..Len(log) :
          /\ log[j].type \in {"caselaw_progress", "caselaw_found"}
                => EmittedBefore(log, j, "wave1_complete")
          /\ log[j].type \in {"statute_progress", "statute_found"}
                => /\ EmittedBefore(log, j, "wave1_started")
                   /\ ~EmittedBefore(log, j, "wave1_complete")
    /\ (clOpen \/ \E i \in Tasks : ag[i].kind = "caselaw")
          => /\ OfType(log, "wave1_complete") # <<>>
             /\ pl.wave = 2
             /\ pl.pc \notin {"pending", "fact_pattern", "wave1", "synth1"}
    /\ pl.pc \in {"wave1", "synth1"} => OfType(log, "wave1_complete") = <<>>

\* both waves found something, and wave 1 had its synthesis
WavesSequentialWitness ==
    LET log == elog[ThisRun] IN
    /\ 1 \in pl.synthCalled
    /\ OfType(log, "statute_found") # <<>>
    /\ OfType(log, "caselaw_found") # <<>>
    /\ clOpen

\* ------------------------------------------------------------------------
\* C19  A subscriber that subscribes to the run after its status has become
\* complete or error receives no StreamEvent of the run: the status becomes
\* final only when the task stops and closes the stream, and a queue
\* subscribed after that is handed nothing.
\* ------------------------------------------------------------------------
FinalStatus == run.status \in {"complete", "error"}

\* q was subscribed after the stream was closed
SubscribedAfterClose(q) ==
    /\ pl.pc = "done"
    /\ sub[q].state \in {"open", "ended"}
    /\ ~Contains(pl.closedFor, q)

LateSubscriberGetsNoEvent ==
    /\ FinalStatus <=> pl.pc = "done"
    /\ \A q \in QueueIds :
          FinalStatus /\ SubscribedAfterClose(q) => Handed(q) = <<>>

\* the run completed after emitting events, then a subscriber came
LateSubscriberGetsNoEventWitness ==
    /\ run.status = "complete"
    /\ OfType(elog[ThisRun], "run_complete") # <<>>
    /\ SubscribedAfterClose(1)
    /\ sub[1].since = Len(elog[ThisRun])

\* ------------------------------------------------------------------------
\* C20  A subscriber that subscribes after the stream of the run was closed
\* is given the end-of-stream marker at once and does not hang: once the
\* task has stopped, the loop of every subscriber, whenever it subscribed,
\* eventually ends.
\* ------------------------------------------------------------------------
EverySubscriberLoopEnds ==
    \A q \in QueueIds :
        (pl.pc = "done" /\ sub[q].state = "open") ~> (sub[q].state \in {"ended", "gone"})

\* ------------------------------------------------------------------------
\* C21  Subscribing and unsubscribing between the emits and closes of a run
\* corrupt neither the registry nor the delivery: the registry of a run
\* holds exactly the queues subscribed to it and not yet unsubscribed, each
\* once, and no entry is left empty; a queue registered while an event was
\* emitted was handed it once, whatever the other queues did.
\* ------------------------------------------------------------------------
OpenFor(run_id) == {q \in QueueIds : sub[q].state = "open" /\ sub[q].run_id = run_id}

RegistryConsistent ==
    /\ \A r \in DOMAIN queues : queues[r] # <<>>
    /\ \A r \in Runs :
          /\ {Registered(r)[j] : j \in 1..Len(Registered(r))} = OpenFor(r)
          /\ Len(Registered(r)) = Cardinality(OpenFor(r))
    /\ \A q \in QueueIds :
          sub[q].state = "open" =>
              /\ Len(Handed(q)) = Len(elog[sub[q].run_id]) - sub[q].since
              /\ \A j \in 1..Len(Handed(q)) :
                    Handed(q)[j] = elog[sub[q].run_id][sub[q].since + j]

\* the first subscriber of a run took the marker and unsubscribed between
\* two emits; the second one was handed both events
RegistryConsistentWitness ==
    /\ sub[1].state = "ended" /\ sub[1].run_id = 1 /\ sub[1].until = 1
    /\ sub[2].state = "open" /\ sub[2].run_id = 1 /\ sub[2].since = 0
    /\ Len(elog[1]) = 2
    /\ Len(Handed(2)) = 2
    /\ Registered(1) = <<2>>

\* ------------------------------------------------------------------------
\* C22  The stages follow one another with none skipped and one event each:
\* the stage events emitted so far are always the first ones of run_started,
\* fact_pattern, wave1_started, wave1_complete, wave2_started,
\* wave2_complete, run_complete, in that order; a run that completed emitted
\* all seven and no error event; a run that failed emitted exactly one error
\* event, after every stage event.
\* ------------------------------------------------------------------------
StageOrder ==
    <<"run_started", "fact_pattern", "wave1_started", "wave1_complete",
      "wave2_started", "wave2_complete", "run_complete">>

StageEvents(log) == SelectSeq(log, LAMBDA e : Contains(StageOrder, e.type))

StagesSequential ==
    LET log == elog[ThisRun]
        stages == StageEvents(log)
        errors == OfType(log, "error")
    IN /\ Len(stages) <= Len(StageOrder)
       /\ \A j \in 1..Len(stages) : stages[j].type = StageOrder[j]
       /\ run.status = "complete" => Len(stages) = Len(StageOrder) /\ errors = <<>>
       /\ run.status = "error" => Len(errors) = 1 /\ log[Len(log)].type = "error"
       /\ run.status \in {"pending", "running"} => errors = <<>>

\* the case-law synthesis failed: five stage events, then the error event
StagesSequentialWitness ==
    /\ run.status = "error"
    /\ pl.failed = "synth2"
    /\ Len(StageEvents(elog[ThisRun])) = 5
    /\ Len(OfType(elog[ThisRun], "error")) = 1

\* ------------------------------------------------------------------------
\* C23  When the run fails in the synthesis of wave 2, handling the error
\* leaves the run's fact pattern and its wave-1 statute list as they were,
\* and no run_complete event is emitted for the run.
\* ------------------------------------------------------------------------
PartialResultsRetained ==
    [][pl'.failed = "synth2" =>
          /\ run'.fp /\ run'.fp = run.fp
          /\ run'.issues = run.issues
          /\ run'.statutes = run.statutes
          /\ run'.case_law = <<>>
          /\ OfType(elog'[ThisRun], "run_complete") = <<>>]_vars

\* the run ended in error after the case-law synthesis failed, and holds
\* its statutes
PartialResultsRetainedWitness ==
    /\ pl.failed = "synth2"
    /\ run.status = "error"
    /\ run.fp
    /\ run.statutes # <<>>

\* ------------------------------------------------------------------------
\* C24  The status of a run moves pending -> running -> complete or
\* pending -> running -> error; it is pending until the task starts and
\* complete or error once the task is over, and then nothing of the run
\* changes any more; status, error, fact pattern, statutes and case law are
\* written only in steps of the run's pipeline task, never in a step of a
\* sub-agent's task or of a subscriber.
\* ------------------------------------------------------------------------
StatusMoves ==
    {<<"pending", "running">>, <<"running", "complete">>, <<"running", "error">>}

StatusLifecycle ==
    [][/\ run'.status # run.status => <<run.status, run'.status>> \in StatusMoves
       /\ run.status \in {"complete", "error"} => run' = run
       /\ pl'.pc = "pending" <=> run'.status = "pending"
       /\ pl'.pc = "done" <=> run'.status \in {"complete", "error"}
       /\ run' # run => /\ pl'.pc # pl.pc
                        /\ UNCHANGED <<queues, sub, got>>]_vars

\* the run ended in error with its fact pattern set, and a subscriber took
\* the marker afterwards
StatusLifecycleWitness ==
    /\ run.status = "error" /\ run.error # ""
    /\ run.fp
    /\ sub[1].state = "ended" /\ sub[1].until = Len(elog[ThisRun])

\* ------------------------------------------------------------------------
\* C25  One rate limiter guards the case-law source: the clients of all the
\* runs under way acquire from the same limiter, so the requests that go
\* through with no time passing, over all runs, number at most the
\* limiter's capacity.
\* ------------------------------------------------------------------------
RECURSIVE SentAtOnce(_)
SentAtOnce(n) ==
    IF n = 0 THEN 0
    ELSE SentAtOnce(n - 1)
         + (IF clients[n].pc = "none" THEN 0 ELSE Capacity - clients[n].tokens)

OneLimiterForSource ==
    /\ \A r1, r2 \in ClientRuns :
          clients[r1].pc = "running" /\ clients[r2].pc = "running"
              => clients[r1].limiter = clients[r2].limiter
    /\ SentAtOnce(MaxClientRuns) <= 3

\* ------------------------------------------------------------------------
\* C26  A sub-agent whose execute phase came to its end makes the evaluate
\* call if and only if the phase collected at least one item; with nothing
\* collected it returns the empty list with no evaluate call.  So an agent
\* makes the plan call and at most one evaluate call, and the plan call
\* only when nothing was collected.
\* ------------------------------------------------------------------------
EvaluateIffCollected ==
    \A i \in Tasks :
        LET a == ag[i] IN
        /\ a.nEval <= 1
        /\ a.pc \in {"plan", "lookup", "ksearch", "klookup", "search", "fetch"} => a.nEval = 0
        /\ a.pc = "eval" => a.nEval = 1 /\ a.found # <<>>
        /\ a.pc = "done" /\ a.out = "returned" =>
              /\ a.nEval = 1 <=> a.found # <<>>
              /\ a.found = <<>> => a.res = <<>>

\* a statute agent searched, collected nothing and returned
EvaluateIffCollectedWitness ==
    /\ ag[1].kind = "statute"
    /\ ag[1].pc = "done" /\ ag[1].out = "returned"
    /\ ag[1].caught = "none"
    /\ ag[1].calls >= 2
    /\ ag[1].found = <<>>
    /\ ag[1].nEval = 0

\* ------------------------------------------------------------------------
\* C27  The synthesis call of a wave is made if and only if the wave has
\* candidates (its tasks returned at least one result, each announced by a
\* found event).  A wave without candidates, whether it launched no task or
\* its tasks failed or returned nothing, has the empty list as its final
\* result, its wave-complete event is emitted with that empty list and the
\* next stage follows.  With the fact-pattern call the orchestrator makes at
\* most 3 calls to the completion service.
\* ------------------------------------------------------------------------
SynthesisIffCandidates ==
    LET log == elog[ThisRun]
        sf == OfType(log, "statute_found")
        cf == OfType(log, "caselaw_found")
        w1 == OfType(log, "wave1_complete")
        w2 == OfType(log, "wave2_complete")
    IN /\ 1 \in pl.synthCalled => sf # <<>>
       /\ 2 \in pl.synthCalled => cf # <<>>
       /\ pl.pc \in {"pending", "fact_pattern", "wave1"} => pl.synthCalled = {}
       /\ pl.pc \in {"synth1", "wave2"} => 2 \notin pl.synthCalled
       /\ sf # <<>> /\ pl.pc \notin {"pending", "fact_pattern", "wave1"}
             => 1 \in pl.synthCalled
       /\ cf # <<>> /\ pl.pc \notin {"pending", "fact_pattern", "wave1", "synth1", "wave2"}
             => 2 \in pl.synthCalled
       /\ sf = <<>> /\ pl.wave = 2 =>
             /\ Len(w1) = 1 /\ w1[1].n = 0
             /\ run.statutes = <<>>
             /\ OfType(log, "wave2_started") # <<>>
       /\ cf = <<>> /\ pl.wave = 2 /\ pl.failed = "" /\ pl.pc \in {"closing", "done"} =>
             /\ Len(w2) = 1 /\ w2[1].n = 0
             /\ run.case_law = <<>>
             /\ OfType(log, "run_complete") # <<>>
       /\ (IF run.fp \/ pl.failed = "fact_pattern" THEN 1 ELSE 0)
             + Cardinality(pl.synthCalled) <= 3

\* two statute tasks ran and gave no candidate; the run completed with no
\* synthesis call
SynthesisIffCandidatesWitness ==
    /\ run.status = "complete"
    /\ run.issues = 2
    /\ Len(OfType(elog[ThisRun], "statute_progress")) = 4
    /\ pl.synthCalled = {}
    /\ run.statutes = <<>> /\ run.case_law = <<>>

\* ------------------------------------------------------------------------
\* C28  When the request budget of a sub-agent runs out with entries of its
\* lookup or query list left, the agent issues no further request: it has
\* made exactly its budget of requests and its execute phase is over.  What
\* it had collected is kept (no step of an agent ever removes a collected
\* item) and is passed to the evaluate call, so the budget by itself never
\* makes the result empty.
\* ------------------------------------------------------------------------
BudgetKeepsCollected ==
    [][\A i \in Tasks :
          LET a == ag[i]
              b == ag'[i]
          IN /\ Len(a.found) <= Len(b.found)
             /\ SubSeq(b.found, 1, Len(a.found)) = a.found
             /\ b.cut =>
                   /\ b.rc = BudgetOf(b.kind) /\ b.calls = b.rc
                   /\ b.pc \in {"eval", "done"}
                   /\ b.found # <<>> => b.nEval = 1
                   /\ (b.pc = "done" /\ b.nEval = 0) => b.found = <<>>]_vars

\* a statute agent spent its budget with lookups left, and makes the
\* evaluate call with the two sections it collected
BudgetKeepsCollectedWitness ==
    /\ ag[1].kind = "statute"
    /\ ag[1].cut
    /\ ag[1].pc = "eval"
    /\ ag[1].calls = 5
    /\ Len(ag[1].found) = 2

\* ------------------------------------------------------------------------
\* C29  Collecting is first-seen-wins on identity: the collection of an
\* agent holds an identity at most once, and a later occurrence of an
\* identity it holds is passed over: while a detail request of the agent is
\* under way, the identity asked for is not one the collection holds.
\* ------------------------------------------------------------------------
FirstSeenWins ==
    \A i \in Tasks :
        LET a == ag[i] IN
        /\ \A j, k \in 1..Len(a.found) : a.found[j] = a.found[k] => j = k
        /\ a.pc \in {"lookup", "klookup"} => ~Contains(a.found, a.key)

\* ------------------------------------------------------------------------
\* C30  Re-hydration of statutes: the final list of wave 1 is the first 4
\* items of the synthesis, in their order; each carries the full_text and
\* url of the first candidate of the wave with its code and section, and an
\* item that matches no candidate is kept with both empty.
\* ------------------------------------------------------------------------
Matching(key) == {k \in 1..Len(syn.cands) : syn.cands[k].key = key}

StatutesRehydrated ==
    syn.pc = "done" /\ syn.wave = 1 /\ ~syn.raised =>
        /\ Len(syn.out) = Min(Len(syn.resp), 4)
        /\ \A j \in 1..Len(syn.out) :
              /\ syn.out[j].key = syn.resp[j].key
              /\ syn.out[j].conf = syn.resp[j].conf
              /\ syn.out[j].issue = syn.resp[j].issue
              /\ IF Matching(syn.resp[j].key) = {}
                 THEN syn.out[j].src = 0
                 ELSE /\ syn.out[j].src \in Matching(syn.resp[j].key)
                      /\ \A k \in Matching(syn.resp[j].key) : syn.out[j].src <= k

\* two candidates share an identity; of five items the synthesis gave, the
\* first matches no candidate and the second matches both
StatutesRehydratedWitness ==
    /\ syn.pc = "done" /\ syn.wave = 1 /\ ~syn.raised
    /\ Len(syn.cands) = 2
    /\ syn.cands[1].key = 1 /\ syn.cands[2].key = 1
    /\ syn.cands[1].conf # syn.cands[2].conf
    /\ Len(syn.resp) = 5
    /\ syn.resp[1].key = 2 /\ syn.resp[2].key = 1
    /\ Len(syn.out) = 4
    /\ syn.out[1].src = 0 /\ syn.out[2].src = 1

StatuteRequestsSpaced ==
    \A c1, c2 \in 1..NumLookups :
        /\ c1 # c2
        /\ scraper.pc[c1] = "request"
        /\ scraper.pc[c2] = "request"
        /\ scraper.sent[c1] <= scraper.sent[c2]
        => scraper.sent[c2] - scraper.sent[c1] >= MinGap
\* ------------------------------------------------------------------------
\* C38  Lookup de-duplication: between two clear_cache calls,
\* lookup_section_cached makes at most one network lookup for a code and
\* section, also when several callers ask for the same section at the
\* same time.
\* ------------------------------------------------------------------------
LookupsDeduplicated ==
    \A k \in 1..ScraperKeys : scraper.lookups[k] <= 1

\* ------------------------------------------------------------------------
\* C39  Once a lookup_section_cached call for a section has returned, every
\* call for that section made later and before clear_cache returns the
\* value the first one returned, and makes no network request.
\* ------------------------------------------------------------------------
LaterCallsAgree ==
    scraper.last.seen # "nothing" =>
        /\ scraper.last.value = scraper.last.seen
        /\ ~scraper.last.network
\* ------------------------------------------------------------------------
\* C33  Wave 2 launches exactly one case-law sub-agent per statute of the
\* Wave 1 final list, in the list's order (so at most 4).  A statute whose
\* source_issue_id is the id of an issue is paired with that issue; one
\* whose source_issue_id is the id of no issue is not dropped, it is
\* paired with the first issue.  Every case-law candidate carries the id
\* of an issue of the run's fact pattern as its source_issue_id.
\* ------------------------------------------------------------------------
OneCaselawAgentPerStatute ==
    /\ pl.wave = 2 =>
          /\ pl.ntasks = Len(run.statutes)
          /\ pl.ntasks <= SynthCap
    /\ pl.pc = "wave2" =>
          /\ \A j \in 1..pl.ntasks :
                /\ ag[j].kind = "caselaw"
                /\ ag[j].statute = run.statutes[j].key
                /\ ag[j].issue = IF run.statutes[j].issue \in 1..run.issues
                                 THEN run.statutes[j].issue ELSE 1
                /\ ag[j].issue \in 1..run.issues
                /\ \A r \in 1..Len(ag[j].res) : ag[j].res[r].issue = ag[j].issue
    /\ pl.pc = "synth2" =>
          \A c \in 1..Len(pl.cands) : pl.cands[c].issue \in 1..run.issues

\* the one statute of the final list names no issue of the fact pattern,
\* and the case-law agent launched for it, on the first issue, returned a
\* candidate
OneCaselawAgentPerStatuteWitness ==
    /\ pl.pc = "wave2"
    /\ Len(run.statutes) = 1 /\ run.statutes[1].issue = 0
    /\ ag[1].pc = "done" /\ ag[1].issue = 1
    /\ ag[1].res # <<>>
\* ------------------------------------------------------------------------
\* C34  On every subscriber queue the end-of-stream marker is enqueued at
\* most once and nothing is enqueued after it: close is called once for
\* the run, when every sub-agent task of the run is over, and the pipeline
\* emits nothing for the run after it.
\* ------------------------------------------------------------------------
MarkerLastInQueue ==
    /\ \A q \in QueueIds :
          LET items == got[q] \o qbuf[q] IN
          \A j \in 1..Len(items) : items[j] = EndOfStream => j = Len(items)
    /\ closed[ThisRun] <= 1
    /\ closed[ThisRun] = 1 =>
          /\ pl.pc = "done"
          /\ \A i \in Tasks : ag[i].pc \in {"idle", "done"}

MarkerEndsStream ==
    /\ []MarkerLastInQueue
    /\ [][closed[ThisRun] >= 1 => elog' = elog /\ closed' = closed]_vars

\* the stream was closed after a wave 2 with a task, and a subscriber has
\* taken events and then the marker
MarkerEndsStreamWitness ==
    /\ closed[ThisRun] = 1
    /\ pl.wave = 2 /\ pl.ntasks >= 1
    /\ Len(got[1]) >= 3
    /\ got[1][Len(got[1])] = EndOfStream
\* ------------------------------------------------------------------------
\* C35  run_complete and error exclude each other: no run's emissions hold
\* both, and when the pipeline task is over the status is complete if and
\* only if run_complete was emitted, and error if and only if an error
\* event was emitted; also when releasing the case-law client fails after
\* the last stage.
\* ------------------------------------------------------------------------
CompleteExcludesError ==
    LET completes == OfType(elog[ThisRun], "run_complete")
        errors == OfType(elog[ThisRun], "error")
    IN /\ ~(completes # <<>> /\ errors # <<>>)
       /\ pl.pc = "done" =>
             /\ run.status = "complete" <=> completes # <<>>
             /\ run.status = "error" <=> errors # <<>>
\* ------------------------------------------------------------------------
\* C36  Every progress event with status "searching" of a sub-agent is
\* followed, before the wave-complete event of its wave, by exactly one
\* progress event with status "complete" for the same key, emitted after
\* the sub-agent's found events and counting them; also for a sub-agent
\* whose work fails.  Stated at the wave-complete event: by then each
\* launched task has its "complete" progress event.
\* ------------------------------------------------------------------------
ProgressOf(kind, status) ==
    SelectSeq(elog[ThisRun], LAMBDA e : e.type = ProgressType(kind) /\ e.status = status)

EverySearchCompletes ==
    /\ OfType(elog[ThisRun], "wave1_complete") # <<>> =>
          Len(ProgressOf("statute", "complete")) = Len(ProgressOf("statute", "searching"))
    /\ OfType(elog[ThisRun], "wave2_complete") # <<>> =>
          Len(ProgressOf("caselaw", "complete")) = Len(ProgressOf("caselaw", "searching"))
\* ------------------------------------------------------------------------
\* C37  A sub-agent returns a list and raises nothing to its caller for
\* any evaluation its evaluate call can return: an item whose confidence
\* is outside [0,1] or whose fields are missing is dropped or defaulted.
\* ------------------------------------------------------------------------
AgentAlwaysReturns ==
    syn.pc = "selected" =>
        /\ ~syn.raised
        /\ Len(syn.out) <= TopK
\* ------------------------------------------------------------------------
\* C40  The event channels of different runs are isolated.  In every step:
\* an emit or a close for a run enqueues on the queues registered for that
\* run and on no other queue, and when the run has no subscriber it
\* changes no queue and no list (the event is dropped); the subscriber
\* list of a run changes only by a subscribe or an unsubscribe for that
\* run, and then by the one queue given.
\* ------------------------------------------------------------------------
Called(run_id) == elog'[run_id] # elog[run_id] \/ closed'[run_id] # closed[run_id]

ChannelsIsolated ==
    [][\A r \in Runs :
        /\ Called(r) =>
              /\ queues' = queues
              /\ \A q \in QueueIds :
                    IF Contains(Registered(r), q)
                    THEN Len(qbuf'[q]) = Len(qbuf[q]) + 1
                    ELSE qbuf'[q] = qbuf[q]
        /\ Registered(r)' # Registered(r) =>
              \E q \in QueueIds :
                  /\ sub'[q] # sub[q]
                  /\ \/ /\ sub'[q].run_id = r
                        /\ Registered(r)' = Append(Registered(r), q)
                     \/ /\ sub[q].run_id = r
                        /\ Registered(r)' = SelectSeq(Registered(r), LAMBDA x : x # q)
                  /\ \A o \in Runs \ {r} : Registered(o)' = Registered(o)
                  /\ \A p \in QueueIds \ {q} : qbuf'[p] = qbuf[p]
      ]_vars

\* two open subscribers, one per run: the first run emitted and was
\* closed, the second was closed with no event; and a run emitted to no
\* subscriber before
ChannelsIsolatedWitness ==
    /\ sub[1].state = "open" /\ sub[1].run_id = 1
    /\ sub[2].state = "open" /\ sub[2].run_id = 2
    /\ Len(elog[1]) > sub[1].since /\ closed[1] = 1
    /\ Len(elog[2]) = sub[2].since /\ sub[2].since >= 1
    /\ Len(qbuf[1]) >= 2
    /\ qbuf[2] = <<>>
====
